---- MODULE Spec2Model ----
(***************************************************************************)
(* Model of the monitoring subsystem of TasksFlowBackend:                  *)
(*   - MonitoringService (app/services/monitoring.py): the alert evaluator *)
(*     check_alerts, the collection cycle collect_and_store_metrics and    *)
(*     the loop start_monitoring / stop_monitoring;                        *)
(*   - MonitoringCollector (monitoring_collector.py): the stand-alone      *)
(*     collector loop run / stop and its cycle collect_and_store_data;     *)
(*   - the queries, the alert resolution and the cleanup of                *)
(*     app/crud/monitoring.py, and the endpoints of app/api/monitoring.py  *)
(*     over them.                                                          *)
(*                                                                         *)
(* Percentages and temperatures are fixed-point numbers in hundredths      *)
(* (80.01 is 8001), so that the comparisons of the code with 80, 85, 90    *)
(* and 95 are decided exactly.  Times are whole seconds.                   *)
(***************************************************************************)
EXTENDS Integers, Sequences, FiniteSets, TLC

VARIABLES
    proc,                \* which program this process is: "service" or "collector"
    is_running,          \* the is_running flag of the loop object of the process
    collection_interval, \* the collection_interval attribute of the loop object
    pc,                  \* pc[t]: position of loop invocation (coroutine) t
    start_time,          \* start_time[t]: time at which t's cycle in flight began
    wake_at,             \* wake_at[t]: time at which t's asyncio.sleep returns
    last,                \* last[t]: start, duration and outcome of t's last finished cycle
    gap,                 \* gap[t]: time between the starts of t's last two cycles
    now,                 \* the wall clock (time.time(), func.now())
    system_rows,         \* table system_metrics, in insertion order
    gpu_rows,            \* table gpu_metrics, in insertion order
    alert_rows,          \* table monitoring_alerts, in insertion order
    last_id,             \* last value of the id sequence of system_metrics
    cycles,              \* history: cycles finished, by outcome
    exceeded,            \* history: per metric, successful cycles in which it exceeded
    resolves,            \* history: calls of the resolve endpoint
    system_data,         \* evaluator input: the system snapshot handed to check_alerts
    gpu_data,            \* evaluator input: the GPU snapshots handed to check_alerts
    alerts,              \* evaluator output: the list check_alerts returned
    evaluated,           \* evaluator: TRUE once check_alerts has returned
    response,            \* what the last call of a store operation or endpoint returned
    requests,            \* history: calls of the query, cleanup and user operations
    users                \* table users, in insertion order

loop_vars  == <<proc, is_running, collection_interval, pc, start_time, wake_at, last, gap, now>>
store_vars == <<system_rows, gpu_rows, alert_rows, last_id>>
hist_vars  == <<cycles, exceeded, resolves>>
eval_vars  == <<system_data, gpu_data, alerts, evaluated>>
api_vars   == <<response, requests>>
user_vars  == <<users>>
vars       == <<loop_vars, store_vars, hist_vars, eval_vars, api_vars, user_vars>>

(***************************************************************************)
(* Bounds of the model.                                                    *)
(***************************************************************************)
MaxGpus   == 2      \* GPU snapshots handed to one evaluation
MaxTasks  == 2      \* invocations of start_monitoring / run
MaxFaults == 1      \* collection cycles that fail in one behaviour
MaxResolves == 2    \* calls of the resolve endpoint in one behaviour
MaxTime   == 14     \* last second of the clock
MaxRows   == 3      \* rows of a table handed to the queries
MaxRequests == 1    \* calls of the query, cleanup and user operations in one behaviour
MaxUsers  == 3      \* rows of the table users

(***************************************************************************)
(* Values.                                                                 *)
(***************************************************************************)
\* Python's None in an Optional[float] field.
None == -1

\* bool(v) of an Optional[float]: None and 0.0 are falsy.
Truthy(v) == v # None /\ v # 0

\* f"{v:.1f}": v (hundredths) shown with one decimal, in tenths.  No value
\* of the input sets below is a tie (ends in 5), where binary floating
\* point decides the rounding.
Fmt1(v) == (v + 5) \div 10

\* MonitoringService.alert_thresholds, in hundredths.
alert_thresholds ==
    [cpu_usage       |-> 8000,
     memory_usage    |-> 8500,
     gpu_usage       |-> 9000,
     gpu_memory      |-> 9000,
     gpu_temperature |-> 8000,
     disk_usage      |-> 9000]

\* An Optional[Dict[str, float]] field: None, or the items in dict order.
NoneDict    == [is_none |-> TRUE, items |-> <<>>]
Dict(items) == [is_none |-> FALSE, items |-> items]

\* bool(d) of an Optional[Dict]: None and {} are falsy.
TruthyDict(d) == ~d.is_none /\ Len(d.items) > 0

(***************************************************************************)
(* The alert evaluator, MonitoringService.check_alerts.                    *)
(***************************************************************************)
\* MonitoringAlertCreate(...).  The message is kept as its template and the
\* values the f-string embeds.
MonitoringAlertCreate(type, level, text, device, index, value, threshold) ==
    [alert_type      |-> type,
     alert_level     |-> level,
     alert_message   |-> [text |-> text, device |-> device, gpu_index |-> index,
                          shown |-> Fmt1(value)],
     alert_value     |-> value,
     threshold_value |-> threshold]

\* Mutant: the critical cutoff taken exclusive.
LevelBelow95_Exclusive(v) == IF v <= 9500 THEN "warning" ELSE "critical"

\* "WARNING if v < 95 else CRITICAL" of the cpu, memory and disk rules.
LevelBelow95(v) == IF v < 9500 THEN "warning" ELSE "critical"

\* "CRITICAL if t > 85 else WARNING" of the GPU temperature rule.
GpuTemperatureLevel(t) == IF t > 8500 THEN "critical" ELSE "warning"

CpuAlerts(sd) ==
    IF Truthy(sd.cpu_usage_percent)
       /\ sd.cpu_usage_percent > alert_thresholds.cpu_usage
    THEN << MonitoringAlertCreate("cpu", LevelBelow95(sd.cpu_usage_percent),
                "cpu usage", "", None, sd.cpu_usage_percent,
                alert_thresholds.cpu_usage) >>
    ELSE << >>

MemoryAlerts(sd) ==
    IF Truthy(sd.memory_usage_percent)
       /\ sd.memory_usage_percent > alert_thresholds.memory_usage
    THEN << MonitoringAlertCreate("memory", LevelBelow95(sd.memory_usage_percent),
                "memory usage", "", None, sd.memory_usage_percent,
                alert_thresholds.memory_usage) >>
    ELSE << >>

DiskItemAlerts(item) ==
    IF item.usage > alert_thresholds.disk_usage
    THEN << MonitoringAlertCreate("disk", LevelBelow95(item.usage),
                "disk usage", item.device, None, item.usage,
                alert_thresholds.disk_usage) >>
    ELSE << >>

RECURSIVE DiskAlertsFrom(_, _)
DiskAlertsFrom(items, i) ==
    IF i > Len(items) THEN << >>
    ELSE DiskItemAlerts(items[i]) \o DiskAlertsFrom(items, i + 1)

DiskAlerts(sd) ==
    IF TruthyDict(sd.disk_usage_percent)
    THEN DiskAlertsFrom(sd.disk_usage_percent.items, 1)
    ELSE << >>

\* Mutant: the GPU usage rule given the levels of the cpu rule.
GpuUsageAlerts_Levelled(g) ==
    IF Truthy(g.gpu_usage_percent)
       /\ g.gpu_usage_percent > alert_thresholds.gpu_usage
    THEN << MonitoringAlertCreate("gpu", LevelBelow95(g.gpu_usage_percent),
                "gpu usage", "", g.gpu_index, g.gpu_usage_percent,
                alert_thresholds.gpu_usage) >>
    ELSE << >>

GpuUsageAlerts(g) ==
    IF Truthy(g.gpu_usage_percent)
       /\ g.gpu_usage_percent > alert_thresholds.gpu_usage
    THEN << MonitoringAlertCreate("gpu", "warning", "gpu usage", "",
                g.gpu_index, g.gpu_usage_percent, alert_thresholds.gpu_usage) >>
    ELSE << >>

GpuMemoryAlerts(g) ==
    IF Truthy(g.gpu_memory_usage_percent)
       /\ g.gpu_memory_usage_percent > alert_thresholds.gpu_memory
    THEN << MonitoringAlertCreate("gpu", "warning", "gpu memory usage", "",
                g.gpu_index, g.gpu_memory_usage_percent,
                alert_thresholds.gpu_memory) >>
    ELSE << >>

GpuTemperatureAlerts(g) ==
    IF Truthy(g.gpu_temperature)
       /\ g.gpu_temperature > alert_thresholds.gpu_temperature
    THEN << MonitoringAlertCreate("gpu", GpuTemperatureLevel(g.gpu_temperature),
                "gpu temperature", "", g.gpu_index, g.gpu_temperature,
                alert_thresholds.gpu_temperature) >>
    ELSE << >>

GpuItemAlerts(g) ==
    GpuUsageAlerts(g) \o GpuMemoryAlerts(g) \o GpuTemperatureAlerts(g)

RECURSIVE GpuAlertsFrom(_, _)
GpuAlertsFrom(gd, i) ==
    IF i > Len(gd) THEN << >>
    ELSE GpuItemAlerts(gd[i]) \o GpuAlertsFrom(gd, i + 1)

\* Mutant: the cpu rule without its "value and" guard: comparing None with
\* the threshold raises, the except clause of check_alerts logs it and the
\* rules after it are not evaluated.
check_alerts_Unguarded(sd, gd) ==
    IF sd.cpu_usage_percent = None THEN << >>
    ELSE CpuAlerts(sd) \o MemoryAlerts(sd) \o DiskAlerts(sd) \o GpuAlertsFrom(gd, 1)

\* check_alerts(system_data, gpu_data): the rules in the order of the code.
check_alerts(sd, gd) ==
    CpuAlerts(sd) \o MemoryAlerts(sd) \o DiskAlerts(sd) \o GpuAlertsFrom(gd, 1)

(***************************************************************************)
(* Inputs of the evaluator: what the sampler can hand to check_alerts.     *)
(***************************************************************************)
\* SystemMetricsCreate, restricted to the fields check_alerts reads.
SystemMetricsCreate(cpu, mem, disk) ==
    [cpu_usage_percent    |-> cpu,
     memory_usage_percent |-> mem,
     disk_usage_percent   |-> disk]

\* GPUMetricsCreate, restricted to the fields check_alerts reads.
GPUMetricsCreate(index, usage, mem, temp) ==
    [gpu_index                |-> index,
     gpu_usage_percent        |-> usage,
     gpu_memory_usage_percent |-> mem,
     gpu_temperature          |-> temp]

CpuVals  == {None, 0, 8000, 8001, 9499, 9500}
MemVals  == {None, 8500, 8501, 9500}
DiskVals == {9000, 9001, 9500}

DiskItem(device, usage) == [device |-> device, usage |-> usage]

DiskDicts ==
    {NoneDict, Dict(<< >>)}
    \cup {Dict(<<DiskItem("/", v)>>) : v \in DiskVals}
    \cup {Dict(<<DiskItem("/data", v)>>) : v \in DiskVals}
    \cup {Dict(<<DiskItem("/", v), DiskItem("/data", w)>>) : v \in DiskVals, w \in DiskVals}

SystemInputs ==
    {SystemMetricsCreate(c, m, d) : c \in CpuVals, m \in MemVals, d \in DiskDicts}

\* <<usage, memory, temperature>> of one GPU.
GpuProfiles ==
    { <<9600, 7000, None>>,
      <<5000, 9200, None>>,
      <<None, None, None>>,
      <<9000, 9000, 8000>>,
      <<9001, 9001, 8001>>,
      <<None, 5000, 8500>>,
      <<0,    None, 8501>> }

\* GPUtil.getGPUs() numbers the GPUs 0, 1, ... in list order.
GpuListOf(ps) ==
    [i \in 1..Len(ps) |-> GPUMetricsCreate(i - 1, ps[i][1], ps[i][2], ps[i][3])]

GpuInputs ==
    UNION {{GpuListOf(ps) : ps \in [1..n -> GpuProfiles]} : n \in 0..MaxGpus}

(***************************************************************************)
(* The store: the tables written by a collection cycle.                    *)
(***************************************************************************)
\* CRUDBase.create on system_metrics: one row, autoincrement id, stamped by
\* the server.
SystemRow(sd, id, ts) ==
    [id                   |-> id,
     timestamp            |-> ts,
     cpu_usage_percent    |-> sd.cpu_usage_percent,
     memory_usage_percent |-> sd.memory_usage_percent,
     disk_usage_percent   |-> sd.disk_usage_percent]

\* CRUDBase.create on gpu_metrics.
GpuRow(g, id, ts) ==
    [id                       |-> id,
     timestamp                |-> ts,
     gpu_index                |-> g.gpu_index,
     gpu_usage_percent        |-> g.gpu_usage_percent,
     gpu_memory_usage_percent |-> g.gpu_memory_usage_percent,
     gpu_temperature          |-> g.gpu_temperature]

\* CRUDBase.create on monitoring_alerts: autoincrement id, server timestamp,
\* is_resolved defaults to "active" and resolved_at to NULL.
AlertRow(a, id, ts) ==
    [id              |-> id,
     timestamp       |-> ts,
     alert_type      |-> a.alert_type,
     alert_level     |-> a.alert_level,
     alert_message   |-> a.alert_message,
     alert_value     |-> a.alert_value,
     threshold_value |-> a.threshold_value,
     is_resolved     |-> "active",
     resolved_at     |-> None]

Min(a, b) == IF a <= b THEN a ELSE b
Max(a, b) == IF a >= b THEN a ELSE b

\* The first n elements of a sequence (all of it when n exceeds its length).
Take(seq, n) == SubSeq(seq, 1, Min(Max(n, 0), Len(seq)))

\* Mutant: an alert is not stored while an active row about the same metric
\* exists (stateful suppression).
NewAlertRows_Suppressed(al, rows, ts) ==
    LET Fresh(a) == ~\E i \in 1..Len(rows) :
                        /\ rows[i].is_resolved = "active"
                        /\ rows[i].alert_message.text = a.alert_message.text
                        /\ rows[i].alert_message.device = a.alert_message.device
                        /\ rows[i].alert_message.gpu_index = a.alert_message.gpu_index
        kept == SelectSeq(al, Fresh)
    IN  [i \in 1..Len(kept) |-> AlertRow(kept[i], Len(rows) + i, ts)]

\* The alerts of one cycle as rows appended to the alert table.
NewAlertRows(al, rows, ts) ==
    [i \in 1..Len(al) |-> AlertRow(al[i], Len(rows) + i, ts)]

(***************************************************************************)
(* Faults of one collection cycle.                                         *)
(*   none    : nothing raises                                              *)
(*   session : SessionLocal() raises, before the try block                 *)
(*   insert  : the create call number at+1 of the cycle raises (inside the *)
(*             try block; the at calls before it succeeded)                *)
(*   close   : db.close() raises in the finally block, after every insert  *)
(***************************************************************************)
Fault(kind, at) == [kind |-> kind, at |-> at]

NoFault == Fault("none", 0)

\* The create calls of a cycle: the system row, the GPU rows, the alerts
\* (get_task_metrics returns no rows).
InsertCount(sd, gd) == 1 + Len(gd) + Len(check_alerts(sd, gd))

Faults(sd, gd) ==
    {NoFault, Fault("session", 0), Fault("close", 0)}
    \cup {Fault("insert", k) : k \in 0..(InsertCount(sd, gd) - 1)}

\* Number of create calls of the cycle that succeed under the fault.
Persisted(sd, gd, fault) ==
    CASE fault.kind = "session" -> 0
      [] fault.kind = "insert"  -> fault.at
      [] OTHER                  -> InsertCount(sd, gd)

\* Does the exception leave the cycle function (to the loop's except clause)?
\* collect_and_store_metrics / collect_and_store_data catch what is raised
\* inside their try block; SessionLocal() and db.close() are outside it.
Propagates(fault) == fault.kind \in {"session", "close"}

\* Mutant: "if system_data:" taken as false for a snapshot without values.
StoreAfterCycle_SkipAbsent(sd, gd, fault, ts) ==
    LET n    == Persisted(sd, gd, fault)
        al   == check_alerts(sd, gd)
        gr   == [i \in 1..Len(gd) |-> GpuRow(gd[i], Len(gpu_rows) + i, ts)]
        keep == IF sd = SystemMetricsCreate(None, None, NoneDict) THEN 0 ELSE 1
    IN  [system_rows |-> system_rows
                         \o Take(<<SystemRow(sd, last_id + 1, ts)>>, Min(n, keep)),
         gpu_rows    |-> gpu_rows \o Take(gr, n - 1),
         alert_rows  |-> alert_rows
                         \o Take(NewAlertRows(al, alert_rows, ts), n - 1 - Len(gd)),
         last_id     |-> last_id + Min(n, keep)]

\* Mutant: the rows carry the time left on a countdown instead of the time
\* of the insert.
StoreAfterCycle_Countdown(sd, gd, fault, ts) ==
    LET n  == Persisted(sd, gd, fault)
        al == check_alerts(sd, gd)
        gr == [i \in 1..Len(gd) |-> GpuRow(gd[i], Len(gpu_rows) + i, 100 - ts)]
    IN  [system_rows |-> system_rows
                         \o Take(<<SystemRow(sd, last_id + 1, 100 - ts)>>, n),
         gpu_rows    |-> gpu_rows \o Take(gr, n - 1),
         alert_rows  |-> alert_rows
                         \o Take(NewAlertRows(al, alert_rows, ts), n - 1 - Len(gd)),
         last_id     |-> last_id + Min(n, 1)]

\* The tables after the cycle's create calls: the system row first, then
\* the GPU rows, then the alerts check_alerts returned; each create is
\* durable, so the rows before a failing create stay.
StoreAfterCycle(sd, gd, fault, ts) ==
    LET n  == Persisted(sd, gd, fault)
        al == check_alerts(sd, gd)
        gr == [i \in 1..Len(gd) |-> GpuRow(gd[i], Len(gpu_rows) + i, ts)]
    IN  [system_rows |-> system_rows \o Take(<<SystemRow(sd, last_id + 1, ts)>>, n),
         gpu_rows    |-> gpu_rows \o Take(gr, n - 1),
         alert_rows  |-> alert_rows
                         \o Take(NewAlertRows(al, alert_rows, ts), n - 1 - Len(gd)),
         last_id     |-> last_id + Min(n, 1)]

\* MonitoringService.collect_and_store_metrics, ending at time ts.
collect_and_store_metrics(sd, gd, fault, ts) ==
    LET after == StoreAfterCycle(sd, gd, fault, ts)
    IN  /\ system_rows' = after.system_rows
        /\ gpu_rows'    = after.gpu_rows
        /\ alert_rows'  = after.alert_rows
        /\ last_id'     = after.last_id

\* Mutant: the rows of the cycle are written in one transaction, which
\* db.rollback() undoes after a failure inside the try block.
collect_and_store_data_Atomic(sd, gd, fault, ts) ==
    LET after == StoreAfterCycle(sd, gd, fault, ts)
        undo  == fault.kind = "insert"
    IN  /\ system_rows' = IF undo THEN system_rows ELSE after.system_rows
        /\ gpu_rows'    = IF undo THEN gpu_rows ELSE after.gpu_rows
        /\ alert_rows'  = IF undo THEN alert_rows ELSE after.alert_rows
        /\ last_id'     = IF undo THEN last_id ELSE after.last_id

\* MonitoringCollector.collect_and_store_data, ending at time ts: the same
\* create calls, then db.commit(), or db.rollback() after a failure, which
\* finds nothing uncommitted.
collect_and_store_data(sd, gd, fault, ts) ==
    LET after == StoreAfterCycle(sd, gd, fault, ts)
    IN  /\ system_rows' = after.system_rows
        /\ gpu_rows'    = after.gpu_rows
        /\ alert_rows'  = after.alert_rows
        /\ last_id'     = after.last_id

\* Mutant: resolving a resolved alert makes it active again.
resolve_alert_Toggle(rows, alert_id, ts) ==
    [i \in 1..Len(rows) |->
        IF rows[i].id = alert_id
        THEN IF rows[i].is_resolved = "resolved"
             THEN [rows[i] EXCEPT !.is_resolved = "active", !.resolved_at = None]
             ELSE [rows[i] EXCEPT !.is_resolved = "resolved", !.resolved_at = ts]
        ELSE rows[i]]

\* CRUDMonitoringAlert.resolve_alert, the table after the call: the row is
\* stamped at every call.
resolve_alert(rows, alert_id, ts) ==
    [i \in 1..Len(rows) |->
        IF rows[i].id = alert_id
        THEN [rows[i] EXCEPT !.is_resolved = "resolved", !.resolved_at = ts]
        ELSE rows[i]]

(***************************************************************************)
(* The queries of app/crud/monitoring.py and the endpoints over them.      *)
(* An Optional[row] is a sequence of at most one row: << >> is None.       *)
(* A query whose ORDER BY leaves the order of some rows open can return    *)
(* them in any order: the operators below give the set of the lists the    *)
(* query can return.                                                       *)
(***************************************************************************)
Day    == 86400
Minute == 60

Range(seq) == {seq[i] : i \in 1..Len(seq)}

\* The lists holding every row of S once, in any order (.all() without
\* ORDER BY, and rows of equal sort key).
Perms(S) ==
    {q \in [1..Cardinality(S) -> S] :
        \A i, j \in 1..Cardinality(S) : i # j => q[i] # q[j]}

\* The rows of S of greatest timestamp.
Newest(S) == {r \in S : \A o \in S : o.timestamp <= r.timestamp}

\* .order_by(desc(timestamp)).all() on the rows of S.
RECURSIVE OrderByDesc(_)
OrderByDesc(S) ==
    IF S = {} THEN {<< >>}
    ELSE {p \o q : p \in Perms(Newest(S)), q \in OrderByDesc(S \ Newest(S))}

\* CRUDBase.get: the row of the given primary key, or None.
get(rows, id) ==
    LET HasId(r) == r.id = id
    IN  SelectSeq(rows, HasId)

\* What resolve_alert returns: the refreshed row, or None.
resolve_alert_return(rows, alert_id, ts) ==
    get(resolve_alert(rows, alert_id, ts), alert_id)

NoResponse == [op |-> "none"]

\* Mutant: the HTTPException raised for a missing alert is caught by the
\* handler's except Exception clause.
resolve_monitoring_alert_NoReraise(rows, alert_id, ts) ==
    LET alert == resolve_alert_return(rows, alert_id, ts)
    IN  IF alert = << >>
        THEN [op |-> "resolve", alert_id |-> alert_id, status |-> 500, body |-> << >>]
        ELSE [op |-> "resolve", alert_id |-> alert_id, status |-> 200, body |-> alert]

\* PUT /alerts/{alert_id}/resolve: the response.
resolve_monitoring_alert(rows, alert_id, ts) ==
    LET alert == resolve_alert_return(rows, alert_id, ts)
    IN  IF alert = << >>
        THEN [op |-> "resolve", alert_id |-> alert_id, status |-> 404, body |-> << >>]
        ELSE [op |-> "resolve", alert_id |-> alert_id, status |-> 200, body |-> alert]

\* Mutant: the query does not filter on is_resolved.
get_active_alerts_All(rows) == OrderByDesc(Range(rows))

\* CRUDMonitoringAlert.get_active_alerts.
get_active_alerts(rows) ==
    OrderByDesc({r \in Range(rows) : r.is_resolved = "active"})

\* CRUDSystemMetrics.get_latest: .order_by(desc(timestamp)).first().
get_latest(rows) == {Take(q, 1) : q \in OrderByDesc(Range(rows))}

\* CRUDGPUMetrics.get_all_latest: the rows joined with the subquery of the
\* greatest timestamp of each gpu_index; .all() without ORDER BY.
get_all_latest(rows) ==
    LET max_timestamp(index) ==
            CHOOSE t \in {r.timestamp : r \in {o \in Range(rows) : o.gpu_index = index}} :
                \A r \in Range(rows) : r.gpu_index = index => r.timestamp <= t
    IN  Perms({r \in Range(rows) : r.timestamp = max_timestamp(r.gpu_index)})

\* CRUDGPUMetrics.get_latest_by_gpu.
get_latest_by_gpu(rows, gpu_index) ==
    {Take(q, 1) : q \in OrderByDesc({r \in Range(rows) : r.gpu_index = gpu_index})}

\* Mutant: the end of the range is exclusive.
get_by_time_range_Exclusive(rows, since, until, limit) ==
    {Take(q, limit) :
        q \in OrderByDesc({r \in Range(rows) :
                              r.timestamp >= since /\ r.timestamp < until})}

\* CRUDSystemMetrics.get_by_time_range; since and until are its start_time
\* and end_time.
get_by_time_range(rows, since, until, limit) ==
    {Take(q, limit) :
        q \in OrderByDesc({r \in Range(rows) :
                              r.timestamp >= since /\ r.timestamp <= until})}

\* CRUDGPUMetrics.get_by_gpu_and_time_range.
get_by_gpu_and_time_range(rows, gpu_index, since, until, limit) ==
    {Take(q, limit) :
        q \in OrderByDesc({r \in Range(rows) :
                              /\ r.gpu_index = gpu_index
                              /\ r.timestamp >= since
                              /\ r.timestamp <= until})}

\* func.date_trunc('minute', timestamp).
date_trunc_minute(ts) == (ts \div Minute) * Minute

\* The numbers of S in ascending order (ORDER BY of distinct group keys).
RECURSIVE Ascending(_)
Ascending(S) ==
    IF S = {} THEN << >>
    ELSE LET least == CHOOSE x \in S : \A y \in S : x <= y
         IN  <<least>> \o Ascending(S \ {least})

RECURSIVE SumOf(_, _)
SumOf(S, field) ==
    IF S = {} THEN 0
    ELSE LET r == CHOOSE x \in S : TRUE
         IN  r[field] + SumOf(S \ {r}, field)

\* A mean, kept exact as sum and count.
Mean(sum, count) == [sum |-> sum, count |-> count]

\* float(func.avg(column) or 0) over the rows of S: NULLs are skipped, and
\* the mean of no value is NULL, which becomes 0.
avg(S, field) ==
    LET vals == {r \in S : r[field] # None}
    IN  IF vals = {} THEN Mean(0, 1)
        ELSE Mean(SumOf(vals, field), Cardinality(vals))

\* float(func.max(column) or 0) over the rows of S.
max(S, field) ==
    LET vals == {r[field] : r \in {o \in S : o[field] # None}}
    IN  IF vals = {} THEN 0
        ELSE CHOOSE v \in vals : \A w \in vals : w <= v

\* CRUDSystemMetrics.get_aggregated_data: the rows of the range grouped by
\* the minute of their timestamp, in ascending order of the minute;
\* interval_minutes is not used.
get_aggregated_data(rows, since, until, interval_minutes) ==
    LET in_range == {r \in Range(rows) :
                        r.timestamp >= since /\ r.timestamp <= until}
        buckets  == Ascending({date_trunc_minute(r.timestamp) : r \in in_range})
        group(b) == {r \in in_range : date_trunc_minute(r.timestamp) = b}
    IN  [i \in 1..Len(buckets) |->
            [timestamp        |-> buckets[i],
             avg_cpu_usage    |-> avg(group(buckets[i]), "cpu_usage_percent"),
             max_cpu_usage    |-> max(group(buckets[i]), "cpu_usage_percent"),
             avg_memory_usage |-> avg(group(buckets[i]), "memory_usage_percent"),
             max_memory_usage |-> max(group(buckets[i]), "memory_usage_percent")]]

\* The response of a read endpoint that returns what its query returned.
query_response(op, args, result) ==
    [op |-> op, args |-> args, status |-> 200, body |-> result]

\* Faults of one call of get_system_overview:
\*   none    : nothing raises
\*   session : SessionLocal() raises, before the try block
\*   read    : the query number at+1 raises, inside the try block
\*   close   : db.close() raises in the finally block
OverviewFaults ==
    {NoFault, Fault("session", 0), Fault("close", 0)}
    \cup {Fault("read", k) : k \in 0..2}

\* The status derived from the active alerts.
system_status(active_alerts) ==
    IF Len(active_alerts) > 0
    THEN IF \E i \in 1..Len(active_alerts) : active_alerts[i].alert_level = "critical"
         THEN "critical"
         ELSE "warning"
    ELSE "healthy"

\* An exception leaving a function.
Raised == [raised |-> TRUE]
Returned(value) == [raised |-> FALSE, value |-> value]

\* Mutant: the except clause of get_system_overview raises again.
get_system_overview_Reraise(fault, latest_system, latest_gpu_list, active_alerts, ts) ==
    IF fault # NoFault THEN Raised
    ELSE Returned([system_metrics |-> latest_system,
                   gpu_metrics    |-> latest_gpu_list,
                   active_alerts  |-> active_alerts,
                   summary |-> [system_status       |-> system_status(active_alerts),
                                timestamp           |-> ts,
                                active_alerts_count |-> Len(active_alerts),
                                gpu_count           |-> Len(latest_gpu_list)]])

\* MonitoringService.get_system_overview on the results of its three
\* queries, at time ts.
get_system_overview(fault, latest_system, latest_gpu_list, active_alerts, ts) ==
    IF Propagates(fault) THEN Raised
    ELSE IF fault.kind = "read"
    THEN Returned([system_metrics |-> << >>,
                   gpu_metrics    |-> << >>,
                   active_alerts  |-> << >>,
                   summary |-> [system_status       |-> "error",
                                timestamp           |-> ts,
                                active_alerts_count |-> 0,
                                gpu_count           |-> 0]])
    ELSE Returned([system_metrics |-> latest_system,
                   gpu_metrics    |-> latest_gpu_list,
                   active_alerts  |-> active_alerts,
                   summary |-> [system_status       |-> system_status(active_alerts),
                                timestamp           |-> ts,
                                active_alerts_count |-> Len(active_alerts),
                                gpu_count           |-> Len(latest_gpu_list)]])

\* GET /overview: the response to what the service returned or raised.
system_overview_response(fault, result) ==
    IF result.raised
    THEN [op |-> "overview", fault |-> fault, status |-> 500, body |-> << >>]
    ELSE [op |-> "overview", fault |-> fault, status |-> 200, body |-> <<result.value>>]

\* Mutant: rows stamped exactly at the cutoff are deleted as well.
cleanup_old_data_Inclusive(rows, ts, days_to_keep) ==
    LET cutoff_date == ts - days_to_keep * Day
        Kept(r) == ~(r.timestamp <= cutoff_date)
    IN  [rows          |-> SelectSeq(rows, Kept),
         deleted_count |-> Len(rows) - Len(SelectSeq(rows, Kept))]

\* CRUDSystemMetrics.cleanup_old_data at time ts: the table after the
\* delete, and the count returned.
cleanup_old_data(rows, ts, days_to_keep) ==
    LET cutoff_date == ts - days_to_keep * Day
        Kept(r) == ~(r.timestamp < cutoff_date)
    IN  [rows          |-> SelectSeq(rows, Kept),
         deleted_count |-> Len(rows) - Len(SelectSeq(rows, Kept))]

\* DELETE /cleanup: the response.
cleanup_old_metrics(deleted_system, days_to_keep) ==
    [op |-> "cleanup", days_to_keep |-> days_to_keep, status |-> 200,
     body |-> [deleted_system_metrics |-> deleted_system,
               days_kept              |-> days_to_keep]]

(***************************************************************************)
(* The sampler, MonitoringService.get_system_metrics / get_gpu_metrics.    *)
(* A host is what psutil reports: cpu_percent, virtual_memory().percent    *)
(* and the usage of each mounted partition.  failing names the psutil call *)
(* that raises during the sampling ("none": no call raises).               *)
(***************************************************************************)
Host(cpu, mem, mounts) == [cpu |-> cpu, memory |-> mem, mounts |-> mounts]

\* The calls of get_system_metrics that have a try block of their own.
GuardedCalls ==
    {"cpu_freq", "disk_io_counters", "disk_usage", "net_io_counters",
     "net_connections", "sensors_temperatures"}

\* The calls that have none: what they raise reaches the except clause of
\* the whole function.
UnguardedCalls ==
    {"cpu_percent", "getloadavg", "virtual_memory", "swap_memory",
     "disk_partitions", "boot_time", "pids"}

\* get_system_metrics: a failure of disk_usage skips the partition it was
\* called for (the first one here); a failure of an unguarded call gives
\* SystemMetricsCreate(), every field absent.
get_system_metrics(host, failing) ==
    IF failing \in UnguardedCalls
    THEN SystemMetricsCreate(None, None, NoneDict)
    ELSE SystemMetricsCreate(
             host.cpu, host.memory,
             IF failing = "disk_usage" /\ Len(host.mounts) > 0
             THEN Dict(Tail(host.mounts))
             ELSE Dict(host.mounts))

\* Mutant: what GPUtil raises leaves get_gpu_metrics.
get_gpu_metrics_Propagate(GPU_AVAILABLE, gpus, failing_at) ==
    IF ~GPU_AVAILABLE THEN Returned(<< >>)
    ELSE IF failing_at = None THEN Returned(gpus)
    ELSE Raised

\* get_gpu_metrics: no GPU library gives []; failing_at = k is an exception
\* while GPU k is read (k = 0 includes getGPUs() itself), which is logged,
\* and the GPUs appended before it are returned.
get_gpu_metrics(GPU_AVAILABLE, gpus, failing_at) ==
    IF ~GPU_AVAILABLE THEN Returned(<< >>)
    ELSE IF failing_at = None THEN Returned(gpus)
    ELSE Returned(Take(gpus, failing_at))

\* The fault of a cycle whose GPU sampling gave gpu: an exception of the
\* sampler would be raised inside the try block, after the create call of
\* the system row.
CycleFault(fault, gpu) ==
    IF gpu.raised /\ (fault = NoFault \/ fault.kind = "close"
                      \/ (fault.kind = "insert" /\ fault.at >= 1))
    THEN Fault("insert", 1)
    ELSE fault

\* The gpu_data_list of the cycle.
GpuDataList(gpu) == IF gpu.raised THEN << >> ELSE gpu.value

(***************************************************************************)
(* History of the cycles, kept for the statements about alert rows.        *)
(***************************************************************************)
MetricKey(text, device, index) == [text |-> text, device |-> device, gpu_index |-> index]

MetricKeys ==
    {MetricKey("cpu usage", "", None), MetricKey("memory usage", "", None)}
    \cup {MetricKey("disk usage", dev, None) : dev \in {"/", "/data"}}
    \cup {MetricKey(text, "", i) :
            text \in {"gpu usage", "gpu memory usage", "gpu temperature"},
            i \in 0..(MaxGpus - 1)}

\* The value of the metric in a sample, None when the sample has none.
MetricValue(k, sd, gd) ==
    CASE k.text = "cpu usage"    -> sd.cpu_usage_percent
      [] k.text = "memory usage" -> sd.memory_usage_percent
      [] k.text = "disk usage"   ->
            LET its == sd.disk_usage_percent.items
                at  == {i \in 1..Len(its) : its[i].device = k.device}
            IN  IF at = {} THEN None ELSE its[CHOOSE i \in at : TRUE].usage
      [] OTHER ->
            LET at == {i \in 1..Len(gd) : gd[i].gpu_index = k.gpu_index}
            IN  IF at = {} THEN None
                ELSE LET g == gd[CHOOSE i \in at : TRUE]
                     IN  CASE k.text = "gpu usage"        -> g.gpu_usage_percent
                           [] k.text = "gpu memory usage" -> g.gpu_memory_usage_percent
                           [] OTHER                       -> g.gpu_temperature

\* The threshold of the metric in the rule table (hundredths).
RuleThreshold(k) ==
    CASE k.text = "cpu usage"        -> 8000
      [] k.text = "memory usage"     -> 8500
      [] k.text = "disk usage"       -> 9000
      [] k.text = "gpu usage"        -> 9000
      [] k.text = "gpu memory usage" -> 9000
      [] OTHER                       -> 8000

Exceeds(k, sd, gd) ==
    /\ MetricValue(k, sd, gd) # None
    /\ MetricValue(k, sd, gd) > RuleThreshold(k)

Outcome(fault) == IF fault = NoFault THEN "ok" ELSE "failed"

RecordCycle(sd, gd, fault) ==
    /\ cycles' = [cycles EXCEPT ![Outcome(fault)] = @ + 1]
    /\ exceeded' = [k \in MetricKeys |->
                      exceeded[k]
                      + (IF fault = NoFault /\ Exceeds(k, sd, gd) THEN 1 ELSE 0)]
    /\ UNCHANGED resolves

(***************************************************************************)
(* The collection loops.                                                   *)
(*   pc[t] = "idle"     : invocation t has not been made                   *)
(*           "returned" : start_monitoring returned at its guard           *)
(*           "cycle"    : a collection cycle of t is in flight             *)
(*           "sleep"    : t is in asyncio.sleep                            *)
(*           "done"     : the while loop of t has exited                   *)
(* The code between two awaits runs without interleaving of other          *)
(* coroutines; stop() (a signal handler, or a request thread) and the      *)
(* alert endpoints can run while a cycle is in flight.                     *)
(***************************************************************************)
Tasks == 1..MaxTasks

\* What the sampler returns in the cycles of the loops: <<system, GPUs>>.
\* The first is the sample of a host whose sensors all fail.
LoopInputs ==
    { << SystemMetricsCreate(None, None, NoneDict), << >> >>,
      << SystemMetricsCreate(9500, 5000, Dict(<<DiskItem("/", 9000)>>)),
         <<GPUMetricsCreate(0, 5000, None, 8500)>> >> }

\* How long one cycle takes, in seconds.
Durations == {2, 7}

NoCycleInFlight == \A u \in Tasks : pc[u] # "cycle"

\* Mutant: the guard of start_monitoring left out.
StartGuard_Never == FALSE

\* "if self.is_running:" of start_monitoring.
StartGuard == is_running

\* Mutant: "while True:".
WhileCondition_True == TRUE

\* "while self.is_running:" of both loops.
WhileCondition == is_running

\* Mutant: the loop without its try / except: an exception that leaves the
\* cycle function ends the coroutine.
ServiceAfterCycle_Raise(fault) == IF Propagates(fault) THEN "done" ELSE "sleep"

\* Where the loop of start_monitoring is after a cycle: in asyncio.sleep, on
\* the normal path and in the except clause alike.
ServiceAfterCycle(fault) == "sleep"

\* Mutant: the body is begun by a timer, collection_interval after the body
\* before it began, whether that one has ended or not.
BeginCycle_Timer(t, at) ==
    LET begin == IF last[t].outcome = "none" THEN at
                 ELSE last[t].start + collection_interval
    IN  /\ pc' = [pc EXCEPT ![t] = "cycle"]
        /\ start_time' = [start_time EXCEPT ![t] = begin]
        /\ gap' = [gap EXCEPT ![t] = IF last[t].outcome = "none" THEN None
                                     ELSE begin - last[t].start]

\* "while self.is_running:" found true at time at: the body begins.
BeginCycle(t, at) ==
    /\ pc' = [pc EXCEPT ![t] = "cycle"]
    /\ start_time' = [start_time EXCEPT ![t] = at]
    /\ gap' = [gap EXCEPT ![t] = IF last[t].outcome = "none" THEN None
                                 ELSE at - last[t].start]

\* MonitoringService.start_monitoring, up to the first cycle.
StartMonitoring(t) ==
    /\ proc = "service"
    /\ pc[t] = "idle"
    /\ \A u \in Tasks : u < t => pc[u] # "idle"
    /\ NoCycleInFlight
    /\ IF StartGuard
       THEN /\ pc' = [pc EXCEPT ![t] = "returned"]
            /\ UNCHANGED <<is_running, start_time, gap>>
       ELSE /\ is_running' = TRUE
            /\ BeginCycle(t, now)
    /\ UNCHANGED <<proc, collection_interval, wake_at, last, now,
                   store_vars, hist_vars, eval_vars, user_vars, api_vars>>

\* MonitoringService.stop_monitoring.
StopMonitoring ==
    /\ proc = "service"
    /\ is_running' = FALSE
    /\ UNCHANGED <<proc, collection_interval, pc, start_time, wake_at, last, gap,
                   now, store_vars, hist_vars, eval_vars, user_vars, api_vars>>

\* MonitoringCollector.run, up to the first cycle; __main__ runs it once.
Run(t) ==
    /\ proc = "collector"
    /\ t = 1
    /\ pc[t] = "idle"
    /\ is_running' = TRUE
    /\ BeginCycle(t, now)
    /\ UNCHANGED <<proc, collection_interval, wake_at, last, now,
                   store_vars, hist_vars, eval_vars, user_vars, api_vars>>

\* MonitoringCollector.stop, called by signal_handler.
Stop ==
    /\ proc = "collector"
    /\ is_running' = FALSE
    /\ UNCHANGED <<proc, collection_interval, pc, start_time, wake_at, last, gap,
                   now, store_vars, hist_vars, eval_vars, user_vars, api_vars>>

\* The body of the loop of start_monitoring: one cycle taking d seconds,
\* then asyncio.sleep(collection_interval), on the normal path and in the
\* except clause alike.
ServiceCycle(t, sd, gd, fault, d) ==
    /\ proc = "service"
    /\ pc[t] = "cycle"
    /\ now + d <= MaxTime
    /\ fault # NoFault => cycles.failed < MaxFaults
    /\ now' = now + d
    /\ collect_and_store_metrics(sd, gd, fault, now + d)
    /\ wake_at' = [wake_at EXCEPT ![t] = now + d + collection_interval]
    /\ pc' = [pc EXCEPT ![t] = ServiceAfterCycle(fault)]
    /\ last' = [last EXCEPT ![t] = [start   |-> start_time[t],
                                    dur     |-> now + d - start_time[t],
                                    outcome |-> Outcome(fault)]]
    /\ RecordCycle(sd, gd, fault)
    /\ UNCHANGED <<proc, is_running, collection_interval, start_time, gap,
                   eval_vars, user_vars,
                   api_vars>>

\* sleep_time of MonitoringCollector.run: the rest of the interval on the
\* normal path, the whole interval in the except clause.
SleepTime(fault, execution_time) ==
    IF Propagates(fault) THEN collection_interval
    ELSE Max(0, collection_interval - execution_time)

\* The body of the loop of MonitoringCollector.run.
CollectorCycle(t, sd, gd, fault, d) ==
    /\ proc = "collector"
    /\ pc[t] = "cycle"
    /\ now + d <= MaxTime
    /\ fault # NoFault => cycles.failed < MaxFaults
    /\ now' = now + d
    /\ collect_and_store_data(sd, gd, fault, now + d)
    /\ wake_at' = [wake_at EXCEPT ![t] =
                      now + d + SleepTime(fault, now + d - start_time[t])]
    /\ pc' = [pc EXCEPT ![t] = "sleep"]
    /\ last' = [last EXCEPT ![t] = [start   |-> start_time[t],
                                    dur     |-> now + d - start_time[t],
                                    outcome |-> Outcome(fault)]]
    /\ RecordCycle(sd, gd, fault)
    /\ UNCHANGED <<proc, is_running, collection_interval, start_time, gap,
                   eval_vars, user_vars,
                   api_vars>>

\* asyncio.sleep returns (timers fire in order) and the while condition is
\* evaluated: the next cycle begins, or the loop exits.
Wake(t) ==
    /\ pc[t] = "sleep"
    /\ NoCycleInFlight
    /\ \A u \in Tasks : pc[u] = "sleep" => wake_at[t] <= wake_at[u]
    /\ Max(now, wake_at[t]) <= MaxTime
    /\ now' = Max(now, wake_at[t])
    /\ IF WhileCondition
       THEN BeginCycle(t, Max(now, wake_at[t]))
       ELSE /\ pc' = [pc EXCEPT ![t] = "done"]
            /\ UNCHANGED <<start_time, gap>>
    /\ UNCHANGED <<proc, is_running, collection_interval, wake_at, last,
                   store_vars, hist_vars, eval_vars, user_vars, api_vars>>

\* PUT /alerts/{alert_id}/resolve.
ResolveAlert(alert_id) ==
    /\ resolves < MaxResolves
    /\ resolves' = resolves + 1
    /\ alert_rows' = resolve_alert(alert_rows, alert_id, now)
    /\ response' = resolve_monitoring_alert(alert_rows, alert_id, now)
    /\ UNCHANGED <<loop_vars, system_rows, gpu_rows, last_id, cycles, exceeded,
                   eval_vars, user_vars, requests>>

\* GET /overview.
GetSystemOverview(fault) ==
    /\ requests < MaxRequests
    /\ requests' = requests + 1
    /\ \E latest_system \in get_latest(system_rows),
          latest_gpu_list \in get_all_latest(gpu_rows),
          active_alerts \in get_active_alerts(alert_rows) :
            response' = system_overview_response(fault,
                            get_system_overview(fault, latest_system,
                                latest_gpu_list, active_alerts, now))
    /\ UNCHANGED <<loop_vars, store_vars, hist_vars, eval_vars, user_vars>>

\* Mutant: the cleanup deletes the old rows of every table.
CleanupOldMetrics_AllTables(days_to_keep) ==
    /\ requests < MaxRequests
    /\ requests' = requests + 1
    /\ LET done == cleanup_old_data(system_rows, now, days_to_keep)
       IN  /\ system_rows' = done.rows
           /\ response' = cleanup_old_metrics(done.deleted_count, days_to_keep)
    /\ gpu_rows' = cleanup_old_data(gpu_rows, now, days_to_keep).rows
    /\ alert_rows' = cleanup_old_data(alert_rows, now, days_to_keep).rows
    /\ UNCHANGED <<loop_vars, last_id, hist_vars, eval_vars, user_vars>>

\* DELETE /cleanup?days_to_keep=...
CleanupOldMetrics(days_to_keep) ==
    /\ requests < MaxRequests
    /\ requests' = requests + 1
    /\ LET done == cleanup_old_data(system_rows, now, days_to_keep)
       IN  /\ system_rows' = done.rows
           /\ response' = cleanup_old_metrics(done.deleted_count, days_to_keep)
    /\ UNCHANGED <<loop_vars, gpu_rows, alert_rows, last_id, hist_vars, eval_vars,
                   user_vars>>

\* A read endpoint: the store is left as it is.
Answer(result) ==
    /\ requests < MaxRequests
    /\ requests' = requests + 1
    /\ response' = result
    /\ UNCHANGED <<loop_vars, store_vars, hist_vars, eval_vars, user_vars>>

\* GET /system/latest.
GetLatestSystemMetrics ==
    \E latest_metrics \in get_latest(system_rows) :
        Answer(query_response("system_latest", << >>, latest_metrics))

Hour == 3600

\* The window of a history request made at time ts with start_time (since),
\* end_time (until) and hours: "if not start_time: start_time = utcnow() -
\* timedelta(hours=hours)", then "if not end_time: end_time = utcnow()".
Window(since, until, hours, ts) ==
    [start_time |-> IF since = None THEN ts - hours * Hour ELSE since,
     end_time   |-> IF until = None THEN ts ELSE until]

\* The query parameters of a history request, kept with its answer.
Params(since, until, hours) ==
    [params |-> [start_time |-> since, end_time |-> until, hours |-> hours]]

\* GET /system/history with start_time (since), end_time (until), hours and
\* limit; args are the arguments of the query.
GetSystemMetricsHistory(since, until, hours, limit) ==
    LET w == Window(since, until, hours, now)
    IN  \E metrics_history \in get_by_time_range(system_rows, w.start_time,
                                                 w.end_time, limit) :
            Answer(Params(since, until, hours)
                   @@ query_response("system_history",
                          <<w.start_time, w.end_time, limit>>, metrics_history))

\* GET /system/aggregated with start_time, end_time, hours and
\* interval_minutes.
GetAggregatedSystemMetrics(since, until, hours, interval_minutes) ==
    LET w == Window(since, until, hours, now)
    IN  Answer(Params(since, until, hours)
               @@ query_response("system_aggregated",
                      <<w.start_time, w.end_time, interval_minutes>>,
                      get_aggregated_data(system_rows, w.start_time, w.end_time,
                                          interval_minutes)))

\* GET /gpu/latest.
GetLatestGpuMetrics ==
    \E latest_gpu_metrics \in get_all_latest(gpu_rows) :
        Answer(query_response("gpu_latest", << >>, latest_gpu_metrics))

\* GET /gpu/{gpu_index}/latest.
GetGpuLatestMetrics(gpu_index) ==
    \E latest_metrics \in get_latest_by_gpu(gpu_rows, gpu_index) :
        Answer(query_response("gpu_index_latest", <<gpu_index>>, latest_metrics))

\* GET /gpu/{gpu_index}/history with start_time, end_time, hours and limit.
GetGpuMetricsHistory(gpu_index, since, until, hours, limit) ==
    LET w == Window(since, until, hours, now)
    IN  \E metrics_history \in get_by_gpu_and_time_range(gpu_rows, gpu_index,
                                    w.start_time, w.end_time, limit) :
            Answer(Params(since, until, hours)
                   @@ query_response("gpu_history",
                          <<gpu_index, w.start_time, w.end_time, limit>>,
                          metrics_history))

\* check_alerts applied to the sampled data.
Evaluate ==
    /\ ~evaluated
    /\ alerts' = check_alerts(system_data, gpu_data)
    /\ evaluated' = TRUE
    /\ UNCHANGED <<loop_vars, store_vars, hist_vars, system_data, gpu_data, api_vars,
                   user_vars>>

\* What one call of a cycle met: the host, the failing psutil call, the GPU
\* library and the GPU that fails, and what the sampler returned.  The
\* answers of the calls below carry it, with the storage fault of the call.
Sample(host, failing, GPU_AVAILABLE, gpus, failing_at) ==
    [host          |-> host,
     failing       |-> failing,
     GPU_AVAILABLE |-> GPU_AVAILABLE,
     gpus          |-> gpus,
     failing_at    |-> failing_at,
     system_data   |-> get_system_metrics(host, failing),
     gpu           |-> get_gpu_metrics(GPU_AVAILABLE, gpus, failing_at)]

\* How long a cycle called on its own takes, in seconds.
CollectDuration == 2

\* The answer of POST /collect: 500 when an exception leaves
\* collect_and_store_metrics.
trigger_metrics_collection(fault) ==
    [op |-> "collect", status |-> IF Propagates(fault) THEN 500 ELSE 200]

\* POST /collect: one call of collect_and_store_metrics, sampling included.
TriggerMetricsCollection(host, failing, GPU_AVAILABLE, gpus, failing_at, fault) ==
    LET s  == Sample(host, failing, GPU_AVAILABLE, gpus, failing_at)
        gd == GpuDataList(s.gpu)
        f  == CycleFault(fault, s.gpu)
    IN  /\ proc = "service"
        /\ requests < MaxRequests
        /\ now + CollectDuration <= MaxTime
        /\ f # NoFault => cycles.failed < MaxFaults
        /\ requests' = requests + 1
        /\ now' = now + CollectDuration
        /\ collect_and_store_metrics(s.system_data, gd, f, now + CollectDuration)
        /\ RecordCycle(s.system_data, gd, f)
        /\ response' = [sample |-> s, fault |-> fault] @@ trigger_metrics_collection(f)
        /\ UNCHANGED <<proc, is_running, collection_interval, pc, start_time,
                       wake_at, last, gap, eval_vars, user_vars>>

\* One call of MonitoringCollector.collect_and_store_data, sampling included.
CollectAndStoreData(host, failing, GPU_AVAILABLE, gpus, failing_at, fault) ==
    LET s  == Sample(host, failing, GPU_AVAILABLE, gpus, failing_at)
        gd == GpuDataList(s.gpu)
        f  == CycleFault(fault, s.gpu)
    IN  /\ proc = "collector"
        /\ requests < MaxRequests
        /\ now + CollectDuration <= MaxTime
        /\ f # NoFault => cycles.failed < MaxFaults
        /\ requests' = requests + 1
        /\ now' = now + CollectDuration
        /\ collect_and_store_data(s.system_data, gd, f, now + CollectDuration)
        /\ RecordCycle(s.system_data, gd, f)
        /\ response' = [op |-> "collect_and_store_data", raised |-> Propagates(f),
                        sample |-> s, fault |-> fault]
        /\ UNCHANGED <<proc, is_running, collection_interval, pc, start_time,
                       wake_at, last, gap, eval_vars, user_vars>>

(***************************************************************************)
(* The user endpoints of app/api/users.py over the table users, with the   *)
(* permission decorators of app/core/auth_decorators.py.  Of a user the    *)
(* model keeps id, username, email, role and is_active; passwords and the  *)
(* two password endpoints are left out.                                    *)
(***************************************************************************)
User(id, username, email, role, is_active) ==
    [id |-> id, username |-> username, email |-> email, role |-> role,
     is_active |-> is_active]

\* A field of a request body: one the request does not carry, one it
\* carries as null (None), and one it carries with a value.
Unset    == [set |-> FALSE, null |-> FALSE]
Null     == [set |-> TRUE, null |-> TRUE]
Value(v) == [set |-> TRUE, null |-> FALSE, value |-> v]

UserUpdate(username, email, role, is_active) ==
    [username |-> username, email |-> email, role |-> role, is_active |-> is_active]

UserCreate(username, email, role) ==
    [username |-> username, email |-> email, role |-> role]

\* The table after init_db: the administrator.
init_db == << User(1, "admin", "admin@x", "admin", TRUE) >>

\* PermissionChecker.ROLE_PERMISSIONS.get(user.role, []), restricted to the
\* permissions the user endpoints ask for.
ROLE_PERMISSIONS(role) ==
    CASE role = "admin" -> {"read_users", "create_user", "update_user",
                            "delete_user", "admin_access"}
      [] OTHER          -> {}

has_permission(user, permission) ==
    user.is_active /\ permission \in ROLE_PERMISSIONS(user.role)

has_all_permissions(user, permissions) ==
    \A perm \in permissions : has_permission(user, perm)

\* Mutant: the wrapper calls the endpoint whatever the permissions are.
permission_required_Open(current_user, permissions, allow_self_access, user_id) ==
    TRUE

\* The wrapper of permission_required: does it call the endpoint (TRUE) or
\* raise 403 (FALSE)?  user_id is the path parameter named by self_param.
permission_required(current_user, permissions, allow_self_access, user_id) ==
    \/ allow_self_access /\ current_user.id = user_id
    \/ has_all_permissions(current_user, permissions)

\* get_user: Optional[User] as a sequence of at most one row.
get_user(rows, user_id) ==
    SelectSeq(rows, LAMBDA r : r.id = user_id)

is_username_taken(rows, username, exclude_user_id) ==
    \E i \in 1..Len(rows) :
        rows[i].username = username /\ rows[i].id # exclude_user_id

is_email_taken(rows, email, exclude_user_id) ==
    \E i \in 1..Len(rows) :
        rows[i].email = email /\ rows[i].id # exclude_user_id

\* setattr for every field the body carries (dict(exclude_unset=True)).
Updated(row, user_update) ==
    [f \in DOMAIN row |->
        IF f \in DOMAIN user_update /\ user_update[f].set
        THEN user_update[f].value
        ELSE row[f]]

\* Does the table refuse the update?  The columns username, email, role and
\* is_active hold no NULL (UserResponse declares them required, unlike
\* updated_at): setting one to None makes the commit raise.
NotNullViolated(user_update) ==
    \E f \in DOMAIN user_update : user_update[f].null

\* update_user: the row after the commit, or the exception of the commit.
update_user(rows, user_id, user_update) ==
    IF NotNullViolated(user_update)
    THEN [raised |-> TRUE, rows |-> rows]
    ELSE [raised |-> FALSE,
          rows   |-> [i \in 1..Len(rows) |->
                        IF rows[i].id = user_id
                        THEN Updated(rows[i], user_update)
                        ELSE rows[i]]]

delete_user(rows, user_id) == SelectSeq(rows, LAMBDA r : r.id # user_id)

\* The id the database gives a new row.
NextUserId(rows) ==
    1 + (CHOOSE m \in 0..Len(rows) + 8 :
            /\ \A i \in 1..Len(rows) : rows[i].id <= m
            /\ m = 0 \/ \E i \in 1..Len(rows) : rows[i].id = m)

create_user(rows, user) ==
    Append(rows, User(NextUserId(rows), user.username, user.email, user.role, TRUE))

\* What an endpoint did: the status of its answer, its body and the table.
Done(status, body, rows) == [status |-> status, body |-> body, rows |-> rows]

\* The answer for a returned user under response_model=UserResponse.
UserResponse(user, rows) == Done(200, <<user>>, rows)

\* "if user_in.role is not None: user_in.role = None" of update_user_me: the
\* assignment leaves the field set.
StripRole(user_in) ==
    IF user_in.role.set /\ ~user_in.role.null
    THEN [user_in EXCEPT !.role = Null]
    ELSE user_in

\* The checks and the update shared by update_user_me and update_user_by_id.
CheckedUpdate(rows, user_id, user_in, user_update) ==
    IF user_in.username.set /\ ~user_in.username.null
       /\ is_username_taken(rows, user_in.username.value, user_id)
    THEN Done(400, << >>, rows)
    ELSE IF user_in.email.set /\ ~user_in.email.null
            /\ is_email_taken(rows, user_in.email.value, user_id)
    THEN Done(400, << >>, rows)
    ELSE LET o == update_user(rows, user_id, user_update)
         IN  IF o.raised THEN Done(500, << >>, rows)
             ELSE UserResponse(get_user(o.rows, user_id)[1], o.rows)

\* PUT /users/me.
update_user_me(rows, current_user, user_in) ==
    CheckedUpdate(rows, current_user.id, user_in, StripRole(user_in))

\* GET /users/.
read_users(rows, current_user) ==
    IF ~permission_required(current_user, {"read_users"}, FALSE, None)
    THEN Done(403, << >>, rows)
    ELSE Done(200, rows, rows)

\* POST /users/.
create_user_by_admin(rows, current_user, user_in) ==
    IF ~permission_required(current_user, {"create_user"}, FALSE, None)
    THEN Done(403, << >>, rows)
    ELSE IF is_username_taken(rows, user_in.username, None)
    THEN Done(400, << >>, rows)
    ELSE IF is_email_taken(rows, user_in.email, None)
    THEN Done(400, << >>, rows)
    ELSE LET created == create_user(rows, user_in)
         IN  Done(200, <<created[Len(created)]>>, created)

\* GET /users/{user_id}.
read_user_by_id(rows, current_user, user_id) ==
    IF ~permission_required(current_user, {"admin_access"}, TRUE, user_id)
    THEN Done(403, << >>, rows)
    ELSE IF get_user(rows, user_id) = << >>
    THEN Done(404, << >>, rows)
    ELSE Done(200, get_user(rows, user_id), rows)

\* PUT /users/{user_id}.
update_user_by_id(rows, current_user, user_id, user_in) ==
    IF ~permission_required(current_user, {"admin_access"}, TRUE, user_id)
    THEN Done(403, << >>, rows)
    ELSE IF get_user(rows, user_id) = << >>
    THEN Done(404, << >>, rows)
    ELSE CheckedUpdate(rows, user_id, user_in, user_in)

\* DELETE /users/{user_id}.
delete_user_by_id(rows, current_user, user_id) ==
    IF ~permission_required(current_user, {"delete_user"}, FALSE, user_id)
    THEN Done(403, << >>, rows)
    ELSE IF get_user(rows, user_id) = << >>
    THEN Done(404, << >>, rows)
    ELSE IF user_id = current_user.id
    THEN Done(400, << >>, rows)
    ELSE Done(200, << >>, delete_user(rows, user_id))

\* get_current_active_user: the requests are made by the active users of the
\* table.
Callers == {r \in Range(users) : r.is_active}

\* A request op of current_user with path parameter user_id and body
\* user_in, answered as done.
UserRequest(op, current_user, user_id, user_in, done) ==
    /\ requests < MaxRequests
    /\ requests' = requests + 1
    /\ users' = done.rows
    /\ response' = [op |-> op, caller |-> current_user.id, user_id |-> user_id,
                    user_in |-> user_in, status |-> done.status,
                    body |-> done.body]
    /\ UNCHANGED <<loop_vars, store_vars, hist_vars, eval_vars>>

ReadUserMe(current_user) ==
    /\ current_user \in Callers
    /\ UserRequest("read_user_me", current_user, None, None,
                   Done(200, <<current_user>>, users))

UpdateUserMe(current_user, user_in) ==
    /\ current_user \in Callers
    /\ UserRequest("update_user_me", current_user, None, user_in,
                   update_user_me(users, current_user, user_in))

ReadUsers(current_user) ==
    /\ current_user \in Callers
    /\ UserRequest("read_users", current_user, None, None,
                   read_users(users, current_user))

CreateUserByAdmin(current_user, user_in) ==
    /\ current_user \in Callers
    /\ Len(users) < MaxUsers
    /\ UserRequest("create_user_by_admin", current_user, None, user_in,
                   create_user_by_admin(users, current_user, user_in))

ReadUserById(current_user, user_id) ==
    /\ current_user \in Callers
    /\ UserRequest("read_user_by_id", current_user, user_id, None,
                   read_user_by_id(users, current_user, user_id))

UpdateUserById(current_user, user_id, user_in) ==
    /\ current_user \in Callers
    /\ UserRequest("update_user_by_id", current_user, user_id, user_in,
                   update_user_by_id(users, current_user, user_id, user_in))

DeleteUserById(current_user, user_id) ==
    /\ current_user \in Callers
    /\ UserRequest("delete_user_by_id", current_user, user_id, None,
                   delete_user_by_id(users, current_user, user_id))

(***************************************************************************)
(* Specifications.                                                         *)
(***************************************************************************)
InitLoop ==
    /\ is_running = FALSE
    /\ collection_interval = 5
    /\ pc = [t \in Tasks |-> "idle"]
    /\ start_time = [t \in Tasks |-> 0]
    /\ wake_at = [t \in Tasks |-> 0]
    /\ last = [t \in Tasks |-> [start |-> 0, dur |-> 0, outcome |-> "none"]]
    /\ gap = [t \in Tasks |-> None]
    /\ now = 0
    /\ system_rows = << >>
    /\ gpu_rows = << >>
    /\ alert_rows = << >>
    /\ last_id = 0
    /\ cycles = [ok |-> 0, failed |-> 0]
    /\ exceeded = [k \in MetricKeys |-> 0]
    /\ resolves = 0
    /\ response = NoResponse
    /\ requests = 0

\* The process after construction: MonitoringService() in the API process,
\* MonitoringCollector(collection_interval=5) in the collector process.
Init ==
    /\ proc \in {"service", "collector"}
    /\ InitLoop
    /\ system_data = SystemMetricsCreate(None, None, NoneDict)
    /\ gpu_data = << >>
    /\ alerts = << >>
    /\ evaluated = FALSE
    /\ users = init_db

\* The loops of both programs under start, stop and faults.
Next ==
    \/ \E t \in Tasks : StartMonitoring(t)
    \/ StopMonitoring
    \/ \E t \in Tasks : Run(t)
    \/ Stop
    \/ \E t \in Tasks, in \in LoopInputs, d \in Durations :
          \E fault \in Faults(in[1], in[2]) : ServiceCycle(t, in[1], in[2], fault, d)
    \/ \E t \in Tasks, in \in LoopInputs, d \in Durations :
          \E fault \in Faults(in[1], in[2]) : CollectorCycle(t, in[1], in[2], fault, d)
    \/ \E t \in Tasks : Wake(t)

Spec == Init /\ [][Next]_vars

\* The loops under the event loop, on a host whose sensors all fail (what
\* is sampled does not steer the loops; the faults do).
LiveInputs ==
    { << SystemMetricsCreate(None, None, NoneDict), << >> >> }

NextLive ==
    \/ \E t \in Tasks : StartMonitoring(t)
    \/ StopMonitoring
    \/ \E t \in Tasks : Run(t)
    \/ Stop
    \/ \E t \in Tasks, in \in LiveInputs, d \in Durations :
          \E fault \in Faults(in[1], in[2]) : ServiceCycle(t, in[1], in[2], fault, d)
    \/ \E t \in Tasks, in \in LiveInputs, d \in Durations :
          \E fault \in Faults(in[1], in[2]) : CollectorCycle(t, in[1], in[2], fault, d)
    \/ \E t \in Tasks : Wake(t)

\* The event loop runs every coroutine that is ready: a cycle in flight
\* finishes, a sleep whose time has come returns.
LoopFairness ==
    \A t \in Tasks :
        /\ WF_vars(Wake(t))
        /\ WF_vars(\E in \in LiveInputs, d \in Durations :
                      \E fault \in Faults(in[1], in[2]) :
                          ServiceCycle(t, in[1], in[2], fault, d))
        /\ WF_vars(\E in \in LiveInputs, d \in Durations :
                      \E fault \in Faults(in[1], in[2]) :
                          CollectorCycle(t, in[1], in[2], fault, d))

LiveSpec == Init /\ [][NextLive]_vars /\ LoopFairness

\* What the sampler returns in the cycles that fill the store read by the
\* endpoints: a critical cpu usage, and a GPU whose temperature warrants a
\* warning.
ApiInputs ==
    { << SystemMetricsCreate(9500, None, NoneDict), << >> >>,
      << SystemMetricsCreate(None, None, NoneDict),
         <<GPUMetricsCreate(0, None, None, 8500)>> >> }

\* How long one of these cycles takes, in seconds.
ApiDurations == {7}

\* The days_to_keep values of the cleanup requests.
RetentionDays == {0, 1}

\* The store under the collector process and the alert endpoints of the API
\* process, which share the database.
InitStore ==
    /\ Init
    /\ proc = "collector"

NextStore ==
    \/ \E t \in Tasks : Run(t)
    \/ \E t \in Tasks, in \in LoopInputs, d \in Durations :
          \E fault \in Faults(in[1], in[2]) : CollectorCycle(t, in[1], in[2], fault, d)
    \/ \E t \in Tasks : Wake(t)
    \/ \E alert_id \in 1..(Len(alert_rows) + 1) : ResolveAlert(alert_id)

SpecStore == InitStore /\ [][NextStore]_vars

\* The store under the collector process and the endpoints of the API
\* process that read, resolve and clean up.
NextApi ==
    \/ \E t \in Tasks : Run(t)
    \/ \E t \in Tasks, in \in ApiInputs, d \in ApiDurations :
          \E fault \in Faults(in[1], in[2]) : CollectorCycle(t, in[1], in[2], fault, d)
    \/ \E t \in Tasks : Wake(t)
    \/ \E alert_id \in 1..(Len(alert_rows) + 1) : ResolveAlert(alert_id)
    \/ \E fault \in OverviewFaults : GetSystemOverview(fault)
    \/ \E days_to_keep \in RetentionDays : CleanupOldMetrics(days_to_keep)

SpecApi == InitStore /\ [][NextApi]_vars

\* The tables handed to the queries.  Rows are stamped by the database
\* clock at insertion, so the timestamps do not decrease along a table; two
\* cycles (the loop's and one triggered by POST /collect, or those of two
\* loops) can store rows under the same timestamp.
QueryTimes == {0, 60, 300, 301}
GpuTimes   == {0, 60}
GpuIndexes == {0, 1}
QueryNow   == Day + 300

NonDecreasing(times) ==
    {t \in UNION {[1..n -> times] : n \in 0..MaxRows} :
        \A i, j \in DOMAIN t : i < j => t[i] <= t[j]}

\* The system tables: the row of id i carries cpu usage 10 * i.
SystemTables ==
    {[i \in DOMAIN t |->
         SystemRow(SystemMetricsCreate(1000 * i, None, NoneDict), i, t[i])] :
     t \in NonDecreasing(QueryTimes)}

\* The GPU tables: one row per sampled GPU and cycle.
GpuTables ==
    UNION {{[i \in DOMAIN t |->
                GpuRow(GPUMetricsCreate(g[i], 5000, None, None), i, t[i])] :
            g \in [DOMAIN t -> GpuIndexes]} :
           t \in NonDecreasing(GpuTimes)}

\* The parameters of the range and aggregation requests: limit, bucket
\* width in minutes, and the bounds <<start_time, end_time>>.
Limits    == {1, 2}
Intervals == {1, 5}
Spans(times) == {span \in times \X times : span[1] <= span[2]}

\* hours of the requests that leave a bound out (24 is the default).
LookbackHours == {24}

\* <<start_time, end_time, hours>> of the history requests that give both
\* bounds.
Requests(times) == {<<span[1], span[2], 24>> : span \in Spans(times)}

\* <<start_time, end_time, hours>> of the history requests that leave one
\* bound or both out.
OpenRequests(times) ==
    {<<None, u, h>> : u \in times \cup {None}, h \in LookbackHours}
    \cup {<<t, None, h>> : t \in times, h \in LookbackHours}

\* The API process over a store filled earlier.
InitQuery ==
    /\ proc = "service"
    /\ is_running = FALSE
    /\ collection_interval = 5
    /\ pc = [t \in Tasks |-> "idle"]
    /\ start_time = [t \in Tasks |-> 0]
    /\ wake_at = [t \in Tasks |-> 0]
    /\ last = [t \in Tasks |-> [start |-> 0, dur |-> 0, outcome |-> "none"]]
    /\ gap = [t \in Tasks |-> None]
    /\ now = QueryNow
    /\ \/ system_rows \in SystemTables /\ gpu_rows = << >>
       \/ system_rows = << >> /\ gpu_rows \in GpuTables
    /\ alert_rows = << >>
    /\ last_id = Len(system_rows)
    /\ cycles = [ok |-> 0, failed |-> 0]
    /\ exceeded = [k \in MetricKeys |-> 0]
    /\ resolves = 0
    /\ response = NoResponse
    /\ requests = 0
    /\ system_data = SystemMetricsCreate(None, None, NoneDict)
    /\ gpu_data = << >>
    /\ alerts = << >>
    /\ evaluated = FALSE
    /\ users = init_db

NextQuery ==
    \/ GetLatestSystemMetrics
    \/ \E q \in Requests(QueryTimes), limit \in Limits :
          GetSystemMetricsHistory(q[1], q[2], q[3], limit)
    \/ \E q \in Requests(QueryTimes), interval_minutes \in Intervals :
          GetAggregatedSystemMetrics(q[1], q[2], q[3], interval_minutes)
    \/ GetLatestGpuMetrics
    \/ \E gpu_index \in GpuIndexes : GetGpuLatestMetrics(gpu_index)
    \/ \E gpu_index \in GpuIndexes, q \in Requests(GpuTimes), limit \in Limits :
          GetGpuMetricsHistory(gpu_index, q[1], q[2], q[3], limit)
    \/ \E days_to_keep \in RetentionDays : CleanupOldMetrics(days_to_keep)

SpecQuery == InitQuery /\ [][NextQuery]_vars

\* The history endpoints under requests that leave bounds out.
NextWindow ==
    \/ \E q \in OpenRequests(QueryTimes), limit \in Limits :
          GetSystemMetricsHistory(q[1], q[2], q[3], limit)
    \/ \E q \in OpenRequests(QueryTimes), interval_minutes \in Intervals :
          GetAggregatedSystemMetrics(q[1], q[2], q[3], interval_minutes)
    \/ \E gpu_index \in GpuIndexes, q \in OpenRequests(GpuTimes), limit \in Limits :
          GetGpuMetricsHistory(gpu_index, q[1], q[2], q[3], limit)

SpecWindow == InitQuery /\ [][NextWindow]_vars

\* The hosts of the cycles called on their own: a critical cpu usage, a
\* normal memory usage and two partitions, the first one nearly full.
Hosts == { Host(9500, 5000, <<DiskItem("/", 9001), DiskItem("/data", 5000)>>) }

\* The psutil call that raises.
FailingCalls == {"none", "cpu_percent", "cpu_freq", "virtual_memory", "disk_usage"}

\* The GPUs of the host: none, or two, the first one hot.
HostGpus ==
    { << >>,
      <<GPUMetricsCreate(0, 5000, 5000, 8500), GPUMetricsCreate(1, 5000, 5000, 6000)>> }

\* GPU library present or not, the GPUs, and the GPU whose reading raises.
GpuSampling ==
    { <<FALSE, g, None>> : g \in HostGpus }
    \cup { <<TRUE, g, None>> : g \in HostGpus }
    \cup { <<TRUE, g, k>> : g \in HostGpus \ {<< >>}, k \in {0, 1} }
    \cup { <<TRUE, << >>, 0>> }

\* Single calls of the two cycle functions, sampling included.
InitCollect == Init

NextCollect ==
    \/ \E host \in Hosts, failing \in FailingCalls, g \in GpuSampling :
          \E fault \in Faults(get_system_metrics(host, failing),
                              GpuDataList(get_gpu_metrics(g[1], g[2], g[3]))) :
              TriggerMetricsCollection(host, failing, g[1], g[2], g[3], fault)
    \/ \E host \in Hosts, failing \in FailingCalls, g \in GpuSampling :
          \E fault \in Faults(get_system_metrics(host, failing),
                              GpuDataList(get_gpu_metrics(g[1], g[2], g[3]))) :
              CollectAndStoreData(host, failing, g[1], g[2], g[3], fault)

SpecCollect == InitCollect /\ [][NextCollect]_vars

\* The user tables the requests meet: the administrator, a regular user,
\* and possibly a third account.
UserTables ==
    { init_db \o <<User(2, "alice", "alice@x", "user", TRUE)>> }
    \cup { init_db \o <<User(2, "alice", "alice@x", "user", TRUE),
                        User(3, "bob", "bob@x", role, is_active)>> :
           role \in {"user", "admin"}, is_active \in BOOLEAN }

\* The bodies of the update requests.
UserUpdates ==
    { UserUpdate(Unset, Unset, Value("admin"), Unset),
      UserUpdate(Unset, Unset, Value("user"), Unset),
      UserUpdate(Unset, Value("new@x"), Unset, Unset),
      UserUpdate(Unset, Value("admin@x"), Unset, Unset),
      UserUpdate(Value("admin"), Unset, Unset, Unset),
      UserUpdate(Unset, Unset, Unset, Value(FALSE)),
      UserUpdate(Unset, Value("new@x"), Value("admin"), Unset) }

\* The bodies of the create requests.
UserCreates ==
    { UserCreate("carol", "carol@x", "user"),
      UserCreate("dave", "dave@x", "admin"),
      UserCreate("alice", "other@x", "user") }

\* The path parameter user_id: the ids in use and one that is not.
UserIds == 1..(MaxUsers + 1)

InitUsers ==
    /\ proc = "service"
    /\ InitLoop
    /\ system_data = SystemMetricsCreate(None, None, NoneDict)
    /\ gpu_data = << >>
    /\ alerts = << >>
    /\ evaluated = FALSE
    /\ users \in UserTables

NextUsers ==
    \/ \E current_user \in Callers : ReadUserMe(current_user)
    \/ \E current_user \in Callers, user_in \in UserUpdates :
          UpdateUserMe(current_user, user_in)
    \/ \E current_user \in Callers : ReadUsers(current_user)
    \/ \E current_user \in Callers, user_in \in UserCreates :
          CreateUserByAdmin(current_user, user_in)
    \/ \E current_user \in Callers, user_id \in UserIds :
          ReadUserById(current_user, user_id)
    \/ \E current_user \in Callers, user_id \in UserIds, user_in \in UserUpdates :
          UpdateUserById(current_user, user_id, user_in)
    \/ \E current_user \in Callers, user_id \in UserIds :
          DeleteUserById(current_user, user_id)

SpecUsers == InitUsers /\ [][NextUsers]_vars

\* The evaluator on every input of the bounded sets.
InitEval ==
    /\ proc = "service"
    /\ InitLoop
    /\ system_data \in SystemInputs
    /\ gpu_data \in GpuInputs
    /\ alerts = << >>
    /\ evaluated = FALSE
    /\ users = init_db

NextEval == Evaluate

SpecEval == InitEval /\ [][NextEval]_vars

(***************************************************************************)
(* Statements about the alert evaluator (specification SpecEval).          *)
(***************************************************************************)
\* The positions in the evaluator's output of the alerts about metric k.
AlertsFor(k) ==
    {i \in 1..Len(alerts) :
        /\ alerts[i].alert_message.text = k.text
        /\ alerts[i].alert_message.device = k.device
        /\ alerts[i].alert_message.gpu_index = k.gpu_index}

Sampled(k) == MetricValue(k, system_data, gpu_data)

SystemKeys == {k \in MetricKeys : k.text \in {"cpu usage", "memory usage", "disk usage"}}
GpuLoadKeys == {k \in MetricKeys : k.text \in {"gpu usage", "gpu memory usage"}}
GpuTemperatureKeys == {k \in MetricKeys : k.text = "gpu temperature"}

\* C7: for cpu usage (threshold 80), memory usage (85) and the usage of each
\* disk mount (90), check_alerts emits an alert exactly when the value is
\* strictly greater than the threshold (one alert, carrying the value), at
\* level warning when the value is below 95 and critical from 95 on.
C7_SystemThresholds ==
    evaluated =>
        \A k \in SystemKeys :
            /\ Cardinality(AlertsFor(k))
                 = (IF Sampled(k) # None /\ Sampled(k) > RuleThreshold(k) THEN 1 ELSE 0)
            /\ \A i \in AlertsFor(k) :
                  /\ alerts[i].alert_value = Sampled(k)
                  /\ alerts[i].alert_level
                       = (IF Sampled(k) < 9500 THEN "warning" ELSE "critical")

\* C7 witness: cpu at 80.01 gave a warning, memory at 95.0 a critical and
\* the mount "/" at exactly 90.0 no alert.
C7_Witness ==
    /\ evaluated
    /\ system_data.cpu_usage_percent = 8001
    /\ system_data.memory_usage_percent = 9500
    /\ Sampled(MetricKey("disk usage", "/", None)) = 9000
    /\ \E i \in AlertsFor(MetricKey("cpu usage", "", None)) :
          alerts[i].alert_level = "warning"
    /\ \E i \in AlertsFor(MetricKey("memory usage", "", None)) :
          alerts[i].alert_level = "critical"
    /\ AlertsFor(MetricKey("disk usage", "/", None)) = {}

\* C8 (as claimed): for the temperature of each GPU, check_alerts emits an
\* alert exactly when the temperature exceeds 80, at level warning when it
\* is below 85 and critical when it is 85 or more.
C8_GpuTemperatureLevels ==
    evaluated =>
        \A k \in GpuTemperatureKeys :
            /\ Cardinality(AlertsFor(k))
                 = (IF Sampled(k) # None /\ Sampled(k) > RuleThreshold(k) THEN 1 ELSE 0)
            /\ \A i \in AlertsFor(k) :
                  alerts[i].alert_level
                    = (IF Sampled(k) < 8500 THEN "warning" ELSE "critical")

\* The GPU list of the scenario: GPU 0 at 96% usage and 70% memory, GPU 1 at
\* 50% usage and 92% memory.
TwoGpuScenario ==
    << GPUMetricsCreate(0, 9600, 7000, None), GPUMetricsCreate(1, 5000, 9200, None) >>

GpuTypeAlerts == {i \in 1..Len(alerts) : alerts[i].alert_type = "gpu"}

\* C9: for every list of GPU snapshots, check_alerts emits exactly one alert
\* for each (GPU, metric) pair whose usage or memory usage exceeds 90, always
\* at level warning, and none for the other pairs; on the two-GPU scenario
\* the GPU alerts are exactly a usage warning for GPU 0 and a memory warning
\* for GPU 1.
C9_GpuLoadAlerts ==
    evaluated =>
        /\ \A k \in GpuLoadKeys :
              /\ Cardinality(AlertsFor(k))
                   = (IF Sampled(k) # None /\ Sampled(k) > RuleThreshold(k) THEN 1 ELSE 0)
              /\ \A i \in AlertsFor(k) :
                    /\ alerts[i].alert_level = "warning"
                    /\ alerts[i].alert_value = Sampled(k)
        /\ gpu_data = TwoGpuScenario =>
              /\ Cardinality(GpuTypeAlerts) = 2
              /\ Cardinality(AlertsFor(MetricKey("gpu usage", "", 0))) = 1
              /\ Cardinality(AlertsFor(MetricKey("gpu memory usage", "", 1))) = 1

\* C9 witness: the two-GPU scenario evaluated, with exactly its two alerts.
C9_Witness ==
    /\ evaluated
    /\ gpu_data = TwoGpuScenario
    /\ Cardinality(GpuTypeAlerts) = 2
    /\ \E i \in AlertsFor(MetricKey("gpu usage", "", 0)) :
          alerts[i].alert_level = "warning"
    /\ \E i \in AlertsFor(MetricKey("gpu memory usage", "", 1)) :
          alerts[i].alert_level = "warning"

\* C10: a metric that is absent from the sample never triggers its rule, and
\* the absence of one metric does not keep check_alerts from evaluating the
\* rules of the metrics that are present: each of those that exceeds its
\* threshold still has its alert.
C10_AbsentNeverTriggers ==
    evaluated =>
        \A k \in MetricKeys :
            /\ Sampled(k) = None => AlertsFor(k) = {}
            /\ ((\E j \in MetricKeys : Sampled(j) = None) /\ Exceeds(k, system_data, gpu_data))
                  => AlertsFor(k) # {}

\* C10 witness: cpu usage is absent and raised nothing, while the memory
\* usage and the GPU temperature of the same sample raised their alerts.
C10_Witness ==
    /\ evaluated
    /\ system_data.cpu_usage_percent = None
    /\ AlertsFor(MetricKey("cpu usage", "", None)) = {}
    /\ system_data.memory_usage_percent = 8501
    /\ AlertsFor(MetricKey("memory usage", "", None)) # {}
    /\ Len(gpu_data) = 1
    /\ gpu_data[1].gpu_usage_percent = None
    /\ AlertsFor(MetricKey("gpu temperature", "", 0)) # {}

(***************************************************************************)
(* Statements about the collection loops (specifications Spec, LiveSpec).  *)
(***************************************************************************)
\* A loop instance that is alive: in a cycle or asleep between two cycles.
Alive(t) == pc[t] \in {"cycle", "sleep"}

\* C1 (as claimed): at most one loop instance is alive and going to execute
\* further cycles (the flag it tests is set), whatever the interleaving of
\* start and stop calls with the steps of the loop.
C1_SingleLoop ==
    is_running => Cardinality({t \in Tasks : Alive(t)}) <= 1

\* C2: start_monitoring() called while is_running is set returns at its
\* guard: no cycle begins, and is_running, collection_interval, the clock,
\* the store and every other loop instance are left as they were.
C2_DuplicateStartNoOp ==
    [][\A t \in Tasks :
          (proc = "service" /\ is_running /\ pc[t] = "idle" /\ pc'[t] # "idle")
          => /\ pc'[t] = "returned"
             /\ \A u \in Tasks : u # t => pc'[u] = pc[u]
             /\ UNCHANGED <<is_running, collection_interval, start_time, wake_at,
                            now, store_vars, cycles>>]_vars

\* C2 witness: a start_monitoring() call that returned at the guard.
C2_Witness == \E t \in Tasks : pc[t] = "returned" /\ is_running

\* The clock of the model cannot hold another step of the loops.
MinDuration == CHOOSE d \in Durations : \A e \in Durations : d <= e

Horizon ==
    \/ now + MinDuration > MaxTime
    \/ \E u \in Tasks : pc[u] = "sleep" /\ wake_at[u] > MaxTime

\* C3: a cycle that fails (SessionLocal(), a create or db.close() raises)
\* leaves its loop asleep with is_running as it was, and unless the flag is
\* cleared the loop then begins its next cycle (within the clock's horizon).
C3_FailureKeepsLoop ==
    /\ [][\A t \in Tasks :
            (pc[t] = "cycle" /\ pc'[t] # "cycle" /\ last'[t].outcome = "failed")
            => (pc'[t] = "sleep" /\ is_running' = is_running)]_vars
    /\ \A t \in Tasks :
          (pc[t] # "cycle" /\ last[t].outcome = "failed")
          ~> (pc[t] = "cycle" \/ ~is_running \/ Horizon)

\* C3 witness: a loop whose last cycle failed is in its next cycle.
C3_Witness ==
    \E t \in Tasks : pc[t] = "cycle" /\ last[t].outcome = "failed" /\ is_running

\* C4: stop is cooperative.  A cycle in flight is left only by finishing
\* (the loop is then asleep, that cycle recorded); a cycle begins only with
\* the flag set; and once the flag is cleared every live loop exits unless
\* a start sets the flag again (within the clock's horizon).
C4_CooperativeStop ==
    /\ [][\A t \in Tasks :
            /\ pc[t] = "cycle" =>
                  \/ pc'[t] = "cycle" /\ start_time'[t] = start_time[t]
                  \/ pc'[t] = "sleep" /\ last'[t].start = start_time[t]
            /\ (pc[t] # "cycle" /\ pc'[t] = "cycle") => is_running']_vars
    /\ \A t \in Tasks :
          (~is_running /\ Alive(t)) ~> (pc[t] = "done" \/ is_running \/ Horizon)

\* C4 witness: stop has cleared the flag while the second cycle of a loop
\* is in flight.
C4_Witness ==
    \E t \in Tasks :
        /\ pc[t] = "cycle"
        /\ ~is_running
        /\ last[t].outcome = "ok"
        /\ start_time[t] > last[t].start

\* C5 (as claimed): in every loop the time between the starts of two
\* successive cycles is max(interval, duration of the earlier cycle).
C5_CadenceFromCycleStart ==
    \A t \in Tasks :
        (pc[t] = "cycle" /\ gap[t] # None)
        => gap[t] = Max(collection_interval, last[t].dur)

(***************************************************************************)
(* Statements about the alert table (specification SpecStore).             *)
(***************************************************************************)
\* The rows of the alert table about metric k.
RowsFor(k) ==
    {i \in 1..Len(alert_rows) :
        /\ alert_rows[i].alert_message.text = k.text
        /\ alert_rows[i].alert_message.device = k.device
        /\ alert_rows[i].alert_message.gpu_index = k.gpu_index}

\* C6: alerts are not deduplicated.  Every successful cycle in which a metric
\* exceeds its threshold adds a row of its own for it, whether the earlier
\* rows are active or resolved: the table holds at least as many rows for
\* the metric as there were such cycles, exactly as many when no cycle
\* failed, each under its own id.
C6_NoDeduplication ==
    /\ \A k \in MetricKeys :
          /\ Cardinality(RowsFor(k)) >= exceeded[k]
          /\ cycles.failed = 0 => Cardinality(RowsFor(k)) = exceeded[k]
    /\ \A i, j \in 1..Len(alert_rows) :
          i # j => alert_rows[i].id # alert_rows[j].id

\* C6 witness: cpu usage exceeded in two successful cycles and has two rows,
\* the first resolved before the second cycle stored its own, which is
\* still active.
C6_Witness ==
    LET k == MetricKey("cpu usage", "", None)
    IN  /\ cycles = [ok |-> 2, failed |-> 0]
        /\ exceeded[k] = 2
        /\ \E i, j \in RowsFor(k) :
              /\ i < j
              /\ alert_rows[i].is_resolved = "resolved"
              /\ alert_rows[i].resolved_at < alert_rows[j].timestamp
              /\ alert_rows[j].is_resolved = "active"

(***************************************************************************)
(* Statements about the alert endpoints and the overview (specification    *)
(* SpecApi).                                                               *)
(***************************************************************************)
\* A step that is a call of the resolve endpoint for alert_id.
ResolveStep(alert_id) ==
    /\ resolves' = resolves + 1
    /\ response'.op = "resolve"
    /\ response'.alert_id = alert_id

\* A step that is a call of the operation op.
RequestStep(op) ==
    /\ requests' = requests + 1
    /\ response'.op = op

\* C11: resolving is idempotent.  A call of the resolve endpoint on an alert
\* that is already resolved is answered without error and leaves the
\* alert's resolved_at as the first call set it.
C11_ResolveIdempotent ==
    [][\A i \in 1..Len(alert_rows) :
          (ResolveStep(alert_rows[i].id) /\ alert_rows[i].is_resolved = "resolved")
          => /\ response'.status = 200
             /\ alert_rows'[i].resolved_at = alert_rows[i].resolved_at]_vars

\* C12: resolution is one-way.  Every step that adds alert rows adds them
\* active with resolved_at unset, and no step (cycle, resolve call, overview
\* query, cleanup) turns a resolved alert back to active.
C12_ResolutionOneWay ==
    [][/\ \A j \in (Len(alert_rows) + 1)..Len(alert_rows') :
             /\ alert_rows'[j].is_resolved = "active"
             /\ alert_rows'[j].resolved_at = None
       /\ \A i \in 1..Len(alert_rows), j \in 1..Len(alert_rows') :
             (alert_rows[i].id = alert_rows'[j].id
              /\ alert_rows[i].is_resolved = "resolved")
             => alert_rows'[j].is_resolved = "resolved"]_vars

\* C12 witness: one alert was resolved, a later cycle has stored another
\* alert, the resolve endpoint was called twice and a cleanup ran last; the
\* resolved alert is still resolved.
C12_Witness ==
    /\ response.op = "cleanup"
    /\ resolves = 2
    /\ \E i, j \in 1..Len(alert_rows) :
          /\ alert_rows[i].is_resolved = "resolved"
          /\ alert_rows[i].resolved_at > alert_rows[i].timestamp
          /\ alert_rows[j].is_resolved = "active"
          /\ alert_rows[j].timestamp > alert_rows[i].timestamp

\* C13: resolving an id that no alert row carries is answered 404 with no
\* alert, and changes no alert row.
C13_ResolveNotFound ==
    [][\A alert_id \in 1..(Len(alert_rows) + 1) :
          (ResolveStep(alert_id) /\ get(alert_rows, alert_id) = << >>)
          => /\ response'.status = 404
             /\ response'.body = << >>
             /\ alert_rows' = alert_rows]_vars

\* C13 witness: the table holds alerts, one of them resolved, and the last
\* resolve call was answered 404.
C13_Witness ==
    /\ response.op = "resolve"
    /\ response.status = 404
    /\ get(alert_rows, response.alert_id) = << >>
    /\ \E i \in 1..Len(alert_rows) : alert_rows[i].is_resolved = "resolved"

\* The rows of the alert table that are active.
ActiveRows == {r \in Range(alert_rows) : r.is_resolved = "active"}

\* The status the active alerts of the table call for.
ExpectedStatus ==
    IF \E r \in ActiveRows : r.alert_level = "critical" THEN "critical"
    ELSE IF ActiveRows # {} THEN "warning"
    ELSE "healthy"

\* C14: an overview assembled without failure reports critical when an
\* active alert is critical, else warning when an active alert exists, else
\* healthy; resolved alerts do not count.
C14_OverviewStatus ==
    [][(RequestStep("overview") /\ response'.fault = NoFault)
       => /\ response'.status = 200
          /\ response'.body[1].summary.system_status = ExpectedStatus
          /\ response'.body[1].summary.active_alerts_count = Cardinality(ActiveRows)
          /\ Range(response'.body[1].active_alerts) = ActiveRows]_vars

\* C14 witness: the overview reports warning while a critical alert sits
\* resolved in the table next to an active warning.
C14_Witness ==
    /\ response.op = "overview"
    /\ response.fault = NoFault
    /\ response.body[1].summary.system_status = "warning"
    /\ \E r \in Range(alert_rows) :
          r.is_resolved = "resolved" /\ r.alert_level = "critical"
    /\ \E r \in ActiveRows : r.alert_level = "warning"

\* C15: when one of the three reads of the overview fails, the endpoint
\* still answers 200 with status error, no system snapshot, no GPU rows and
\* no active alerts.
C15_OverviewReadFailure ==
    (response.op = "overview" /\ response.fault.kind = "read")
    => /\ response.status = 200
       /\ response.body[1].summary.system_status = "error"
       /\ response.body[1].system_metrics = << >>
       /\ response.body[1].gpu_metrics = << >>
       /\ response.body[1].active_alerts = << >>

\* C15 witness: a read failed while the store held a system row, a GPU row
\* and an active alert.
C15_Witness ==
    /\ response.op = "overview"
    /\ response.fault.kind = "read"
    /\ response.body[1].summary.system_status = "error"
    /\ system_rows # << >>
    /\ gpu_rows # << >>
    /\ ActiveRows # {}

(***************************************************************************)
(* Statements about the queries and the cleanup (specification SpecQuery). *)
(***************************************************************************)
\* The rows of the GPU table about one GPU.
RowsOfGpu(gpu_index) == {r \in Range(gpu_rows) : r.gpu_index = gpu_index}

\* The row inserted last among the rows of S (ids grow with insertion).
LastInserted(S) == CHOOSE r \in S : \A o \in S : o.id <= r.id

\* C16: a latest query issued right after a snapshot was appended returns a
\* row at least as new as every row of the table, and the row appended last
\* itself, also when an earlier row carries the same timestamp; for the
\* system table and for the rows of one GPU.
C16_LatestAfterAppend ==
    [][/\ (RequestStep("system_latest") /\ system_rows # << >>)
          => /\ Len(response'.body) = 1
             /\ \A r \in Range(system_rows) : response'.body[1].timestamp >= r.timestamp
             /\ response'.body[1] = LastInserted(Range(system_rows))
       /\ (RequestStep("gpu_index_latest") /\ RowsOfGpu(response'.args[1]) # {})
          => /\ Len(response'.body) = 1
             /\ \A r \in RowsOfGpu(response'.args[1]) :
                   response'.body[1].timestamp >= r.timestamp
             /\ response'.body[1] = LastInserted(RowsOfGpu(response'.args[1]))]_vars

\* C17: the latest-per-GPU query returns, for each gpu_index of the GPU
\* table, exactly one row, which carries the greatest timestamp of that
\* GPU, also when several rows of the GPU share that timestamp; and no row
\* besides.
C17_OneLatestRowPerGpu ==
    [][RequestStep("gpu_latest")
       => LET body == response'.body
          IN  /\ \A i \in 1..Len(body) : body[i] \in Range(gpu_rows)
              /\ \A g \in {r.gpu_index : r \in Range(gpu_rows)} :
                    /\ Cardinality({i \in 1..Len(body) : body[i].gpu_index = g}) = 1
                    /\ \A i \in 1..Len(body) :
                          body[i].gpu_index = g
                          => \A r \in RowsOfGpu(g) : r.timestamp <= body[i].timestamp]_vars

\* The list q holds the newest min(limit, n) of the n rows of S, newest
\* first, each once.
NewestFirst(q, S, limit) ==
    /\ Len(q) = Min(limit, Cardinality(S))
    /\ \A i \in 1..Len(q) : q[i] \in S
    /\ \A i, j \in 1..Len(q) :
          i < j => q[i] # q[j] /\ q[i].timestamp >= q[j].timestamp
    /\ \A r \in S \ Range(q), i \in 1..Len(q) : r.timestamp <= q[i].timestamp

\* C18: a range query answers, without error, the newest min(limit, n) of
\* the n rows (of the table, or of the GPU asked for) whose timestamp lies
\* between start_time and end_time, both included, newest first.
C18_RangeQuery ==
    [][/\ RequestStep("system_history")
          => /\ response'.status = 200
             /\ NewestFirst(response'.body,
                    {r \in Range(system_rows) :
                        /\ response'.args[1] <= r.timestamp
                        /\ r.timestamp <= response'.args[2]},
                    response'.args[3])
       /\ RequestStep("gpu_history")
          => /\ response'.status = 200
             /\ NewestFirst(response'.body,
                    {r \in RowsOfGpu(response'.args[1]) :
                        /\ response'.args[2] <= r.timestamp
                        /\ r.timestamp <= response'.args[3]},
                    response'.args[4])]_vars

\* C18 witness: a range holding three rows, one stamped at its start and
\* one at its end, was asked for with limit 2; the answer has two rows, the
\* first the one stamped at the end of the range.
C18_Witness ==
    /\ response.op = "system_history"
    /\ response.args[3] = 2
    /\ Cardinality({r \in Range(system_rows) :
                       /\ response.args[1] <= r.timestamp
                       /\ r.timestamp <= response.args[2]}) = 3
    /\ \E r \in Range(system_rows) : r.timestamp = response.args[1]
    /\ response.args[1] < response.args[2]
    /\ Len(response.body) = 2
    /\ response.body[1].timestamp = response.args[2]

\* C19: the aggregation answers one entry for each bucket of the requested
\* width that holds a row of the range, carrying the mean and the maximum of
\* the cpu usage of the rows of that bucket.
C19_AggregateBuckets ==
    [][RequestStep("system_aggregated")
       => LET width     == response'.args[3] * Minute
              in_range  == {r \in Range(system_rows) :
                               /\ response'.args[1] <= r.timestamp
                               /\ r.timestamp <= response'.args[2]}
              bucket(ts) == ts \div width
              rows_of(b) == {r \in in_range : bucket(r.timestamp) = b}
              body      == response'.body
          IN  /\ Len(body) = Cardinality({bucket(r.timestamp) : r \in in_range})
              /\ \A r \in in_range :
                    \E i \in 1..Len(body) :
                        /\ bucket(body[i].timestamp) = bucket(r.timestamp)
                        /\ body[i].avg_cpu_usage.sum
                              * Cardinality(rows_of(bucket(r.timestamp)))
                           = SumOf(rows_of(bucket(r.timestamp)), "cpu_usage_percent")
                              * body[i].avg_cpu_usage.count
                        /\ \A o \in rows_of(bucket(r.timestamp)) :
                              o.cpu_usage_percent <= body[i].max_cpu_usage
                        /\ \E o \in rows_of(bucket(r.timestamp)) :
                              o.cpu_usage_percent = body[i].max_cpu_usage]_vars

\* C20: cleanup deletes the system rows stamped before now - days_to_keep
\* days and no other, so a row stamped exactly then stays, and answers the
\* number of rows it deleted.
C20_CleanupBoundary ==
    [][RequestStep("cleanup")
       => LET cutoff == now - response'.days_to_keep * Day
          IN  /\ \A r \in Range(system_rows) :
                    r \in Range(system_rows') <=> r.timestamp >= cutoff
              /\ Range(system_rows') \subseteq Range(system_rows)
              /\ response'.body.deleted_system_metrics
                    = Cardinality(Range(system_rows) \ Range(system_rows'))]_vars

\* C20 witness: a cleanup deleted a row and left one stamped exactly at the
\* cutoff and one stamped after it.
C20_Witness ==
    /\ response.op = "cleanup"
    /\ response.body.deleted_system_metrics >= 1
    /\ \E r \in Range(system_rows) : r.timestamp = now - response.days_to_keep * Day
    /\ \E r \in Range(system_rows) : r.timestamp > now - response.days_to_keep * Day

(***************************************************************************)
(* Statements about the sampler and single cycles (specification           *)
(* SpecCollect).                                                           *)
(***************************************************************************)
CollectOps == {"collect", "collect_and_store_data"}

\* Did an exception leave the cycle function?
LeftCycle(r) == IF r.op = "collect" THEN r.status = 500 ELSE r.raised

\* The rows of a table inserted by the cycle that has just ended.
RowsOfCycle(rows) == {i \in 1..Len(rows) : rows[i].timestamp = now}

GpuSamplingFailed(s) == ~s.GPU_AVAILABLE \/ s.failing_at # None

\* C21: a cycle whose GPU sampling fails, or that finds no GPU library, and
\* whose storage does not fail, still completes: no exception leaves it, the
\* system snapshot is stored, and the alerts of the rules about the system
\* snapshot are stored.
C21_GpuFailureTolerated ==
    (/\ response.op \in CollectOps
     /\ GpuSamplingFailed(response.sample)
     /\ response.fault = NoFault)
    => LET sd == response.sample.system_data
           al == check_alerts(sd, << >>)
       IN  /\ ~LeftCycle(response)
           /\ \E i \in RowsOfCycle(system_rows) :
                 system_rows[i] = SystemRow(sd, system_rows[i].id, now)
           /\ \A k \in 1..Len(al) :
                 \E j \in RowsOfCycle(alert_rows) :
                     alert_rows[j] = AlertRow(al[k], alert_rows[j].id, now)

\* C21 witness: GPUtil raises before the first GPU is read on a host with two
\* GPUs; the cycle has stored the system row and the critical cpu alert, and
\* no GPU row.
C21_Witness ==
    /\ response.op = "collect"
    /\ response.sample.GPU_AVAILABLE
    /\ Len(response.sample.gpus) = 2
    /\ response.sample.failing_at = 0
    /\ response.sample.failing = "none"
    /\ response.fault = NoFault
    /\ response.status = 200
    /\ Len(system_rows) = 1
    /\ gpu_rows = << >>
    /\ \E j \in RowsOfCycle(alert_rows) :
          alert_rows[j].alert_message.text = "cpu usage"

\* C22: when one psutil call of the sampling fails, the snapshot lacks the
\* fields of that category only; the fields of the other categories are the
\* sampled values.
C22_SamplerIsolation ==
    (response.op \in CollectOps /\ response.sample.failing # "none")
    => LET s  == response.sample
           sd == s.system_data
       IN  /\ s.failing # "cpu_percent"
                => sd.cpu_usage_percent = s.host.cpu
           /\ s.failing # "virtual_memory"
                => sd.memory_usage_percent = s.host.memory
           /\ s.failing # "disk_usage"
                => sd.disk_usage_percent = Dict(s.host.mounts)
           /\ s.failing = "cpu_percent" => sd.cpu_usage_percent = None
           /\ s.failing = "virtual_memory" => sd.memory_usage_percent = None


\* C26: the rows a cycle has stored stay when a later create of the cycle
\* fails: after a cycle whose create number at+1 >= 2 raised, the system row
\* of the cycle and the GPU rows stored before the failure are in the store.
C26_NoRollback ==
    (/\ response.op \in CollectOps
     /\ response.fault.kind = "insert"
     /\ response.fault.at >= 1)
    => LET sd == response.sample.system_data
           gd == GpuDataList(response.sample.gpu)
       IN  /\ \E i \in RowsOfCycle(system_rows) :
                 system_rows[i] = SystemRow(sd, system_rows[i].id, now)
           /\ Cardinality(RowsOfCycle(gpu_rows)) = Min(response.fault.at - 1, Len(gd))

\* C26 witness: the collector's cycle stored the system row and the row of
\* GPU 0, the create of the row of GPU 1 raised, and both rows are there.
C26_Witness ==
    /\ response.op = "collect_and_store_data"
    /\ response.fault = Fault("insert", 2)
    /\ Len(GpuDataList(response.sample.gpu)) = 2
    /\ ~response.raised
    /\ Len(system_rows) = 1
    /\ Len(gpu_rows) = 1
    /\ alert_rows = << >>

(***************************************************************************)
(* Statements about the rows the loops store (specification Spec).         *)
(***************************************************************************)
\* C23 (as claimed): the system table holds as many rows as there were cycles
\* without a storage failure.
C23_RowsEqualCleanCycles == Len(system_rows) = cycles.ok

\* C23 (amended): every cycle without a storage failure appends exactly one
\* system row, a snapshot without values included; the system table holds at
\* least as many rows as there were such cycles, and exactly as many when no
\* cycle failed.
C23_OneSystemRowPerCycle ==
    /\ [][cycles'.ok = cycles.ok + 1
          => /\ Len(system_rows') = Len(system_rows) + 1
             /\ SubSeq(system_rows', 1, Len(system_rows)) = system_rows]_vars
    /\ [](/\ Len(system_rows) >= cycles.ok
          /\ Len(system_rows) <= cycles.ok + cycles.failed
          /\ cycles.failed = 0 => Len(system_rows) = cycles.ok)

\* C23 witness: two cycles without failure, two rows, the second one the
\* snapshot of a failed sampling, every field absent.
C23_Witness ==
    /\ cycles = [ok |-> 2, failed |-> 0]
    /\ Len(system_rows) = 2
    /\ system_rows[1].cpu_usage_percent = 9500
    /\ system_rows[2].cpu_usage_percent = None
    /\ system_rows[2].memory_usage_percent = None
    /\ system_rows[2].disk_usage_percent = NoneDict

\* C25: the cycles of a loop are sequential: a cycle of a loop begins no
\* earlier than the cycle of that loop before it ended, and no two cycles
\* are in flight in the process at once.
C25_SequentialCycles ==
    /\ \A t \in Tasks :
          (pc[t] = "cycle" /\ last[t].outcome # "none")
          => start_time[t] >= last[t].start + last[t].dur
    /\ \A t, u \in Tasks : (pc[t] = "cycle" /\ pc[u] = "cycle") => t = u

\* C25 witness: a loop is in its second cycle, begun when the first one,
\* longer than the interval, ended.
C25_Witness ==
    \E t \in Tasks :
        /\ pc[t] = "cycle"
        /\ last[t].outcome # "none"
        /\ last[t].dur > collection_interval
        /\ start_time[t] = last[t].start + last[t].dur

\* Are the timestamps of a table non-decreasing in insertion order?
InsertionOrdered(rows) ==
    \A i, j \in 1..Len(rows) : i < j => rows[i].timestamp <= rows[j].timestamp

C28_CleanupFrame ==
    [][RequestStep("cleanup")
       => /\ gpu_rows' = gpu_rows
          /\ alert_rows' = alert_rows
          /\ last_id' = last_id]_vars

\* C28 witness: a cleanup deleted a system row while the GPU table and the
\* alert table hold rows as old as the deleted one.
C28_Witness ==
    LET cutoff == now - response.days_to_keep * Day
    IN  /\ response.op = "cleanup"
        /\ response.body.deleted_system_metrics >= 1
        /\ \E r \in Range(gpu_rows) : r.timestamp < cutoff
        /\ \E r \in Range(alert_rows) : r.timestamp < cutoff

(***************************************************************************)
(* Statements about the window of the history requests (specification      *)
(* SpecWindow).                                                            *)
(***************************************************************************)
HistoryOps == {"system_history", "system_aggregated", "gpu_history"}

\* The bounds a history request handed to its query.
QueriedWindow(r) ==
    IF r.op = "gpu_history"
    THEN [start_time |-> r.args[2], end_time |-> r.args[3]]
    ELSE [start_time |-> r.args[1], end_time |-> r.args[2]]

\* C29: a history request without end_time queries up to now, and one
\* without start_time queries from its end bound (given, or now) minus hours
\* hours: with end_time = E and hours = h only, the window is [E - h, E].
C29_WindowDefaults ==
    [][\A op \in HistoryOps :
          RequestStep(op)
          => LET p == response'.params
                 w == QueriedWindow(response')
                 E == IF p.end_time = None THEN now ELSE p.end_time
             IN  /\ w.end_time = E
                 /\ w.start_time = IF p.start_time = None
                                   THEN E - p.hours * Hour
                                   ELSE p.start_time]_vars

(***************************************************************************)
(* Statements about the user endpoints (specification SpecUsers).          *)
(***************************************************************************)
\* The row of the table with that id (the id is in use).
UserOf(rows, id) == CHOOSE r \in Range(rows) : r.id = id

InUse(rows, id) == \E r \in Range(rows) : r.id = id

\* Would the body give the account user_id a username or an email that
\* another account has?
Duplicates(rows, user_id, user_in) ==
    \E r \in Range(rows) :
        /\ r.id # user_id
        /\ \/ user_in.username.set /\ user_in.username.value = r.username
           \/ user_in.email.set /\ user_in.email.value = r.email

\* The account after the body was applied to it.
Applies(before, after, user_in) ==
    /\ after.id = before.id
    /\ after.username = IF user_in.username.set THEN user_in.username.value
                        ELSE before.username
    /\ after.email = IF user_in.email.set THEN user_in.email.value ELSE before.email
    /\ after.role = IF user_in.role.set THEN user_in.role.value ELSE before.role
    /\ after.is_active = IF user_in.is_active.set THEN user_in.is_active.value
                         ELSE before.is_active

OthersKept(rows, after, user_id) ==
    \A r \in Range(rows) : r.id # user_id => r \in Range(after)

\* C24: a request of an authenticated user who is not an administrator to
\* read, update or delete the account of another user is answered 403 and
\* leaves the table as it was; the same request of an administrator is
\* carried out: the account is returned, updated as the body says (400 and no
\* change if the body duplicates a username or an email), or deleted, and
\* the other accounts stay.
C24_CrossUserAccess ==
    [][\A op \in {"read_user_by_id", "update_user_by_id", "delete_user_by_id"} :
          (RequestStep(op)
           /\ response'.user_id # response'.caller
           /\ InUse(users, response'.user_id))
          => LET r       == response'
                 caller  == UserOf(users, r.caller)
                 account == UserOf(users, r.user_id)
             IN  /\ caller.role # "admin"
                    => (r.status = 403 /\ users' = users)
                 /\ (caller.role = "admin" /\ op = "read_user_by_id")
                    => (r.status = 200 /\ r.body = <<account>> /\ users' = users)
                 /\ (caller.role = "admin" /\ op = "delete_user_by_id")
                    => /\ r.status = 200
                       /\ ~InUse(users', r.user_id)
                       /\ OthersKept(users, users', r.user_id)
                       /\ Len(users') = Len(users) - 1
                 /\ (caller.role = "admin" /\ op = "update_user_by_id")
                    => IF Duplicates(users, r.user_id, r.user_in)
                       THEN r.status = 400 /\ users' = users
                       ELSE /\ r.status = 200
                            /\ InUse(users', r.user_id)
                            /\ Applies(account, UserOf(users', r.user_id), r.user_in)
                            /\ OthersKept(users, users', r.user_id)
                            /\ Len(users') = Len(users)]_vars

\* C24 witness: a regular user asked to update the administrator's email,
\* was answered 403, and the administrator's account is as it was.
C24_Witness ==
    /\ response.op = "update_user_by_id"
    /\ response.status = 403
    /\ response.user_id = 1
    /\ response.user_in.email.set
    /\ InUse(users, response.caller)
    /\ UserOf(users, response.caller).role = "user"
    /\ UserOf(users, 1) = init_db[1]

\* C30: no request of a user of role "user" changes that user's role: after
\* the request the role of the account is still "user".
C30_OwnRoleUnchanged ==
    [][(/\ requests' = requests + 1
        /\ InUse(users, response'.caller)
        /\ UserOf(users, response'.caller).role = "user"
        /\ InUse(users', response'.caller))
       => UserOf(users', response'.caller).role = "user"]_vars

\* C30, the state that refutes it: a regular user has sent PUT
\* /users/{user_id} with the own id and role admin, was answered 200 and is
\* an administrator.
C30_SelfPromotion ==
    /\ response.op = "update_user_by_id"
    /\ response.user_id = response.caller
    /\ response.user_in.role = Value("admin")
    /\ response.status = 200
    /\ response.caller = 2
    /\ UserOf(users, 2).role = "admin"

====
